---- MODULE Spec2Model ----
(***************************************************************************)
(* Zero-trust MCP gateway: the policy engine (policy/engine.py), the six   *)
(* layer functions (layers/*.py), the pipeline executor                    *)
(* (pipeline/pipeline.py), the Enforcer facade (enforcement/wrapper.py)    *)
(* and the in-memory token-bucket limiter (rate_limit.py).                 *)
(*                                                                         *)
(* Three specifications share the module:                                  *)
(*   Spec        one Enforcer, invocations executed one after another,     *)
(*               each walking the layer chain step by step;                *)
(*   SpecEval    PolicyEngine.evaluate applied to policies and             *)
(*               invocations drawn from bounded sets;                      *)
(*   SpecLimiter threads calling InMemoryRateLimiter.allow concurrently,   *)
(*               one attribute read or write per step.                     *)
(***************************************************************************)
EXTENDS Integers, Sequences, FiniteSets, TLC

(***************************************************************************)
(* JSON-shaped values.  A value is a record [t, v]: t is the Python type   *)
(* of the value and v its content.  Strings are sequences of characters.   *)
(* "obj" is a value json.dumps cannot encode.                              *)
(***************************************************************************)
None == [t |-> "null", v |-> 0]

PyStr(s) == [t |-> "str", v |-> s]

PyInt(n) == [t |-> "int", v |-> n]

PyFloat(n) == [t |-> "float", v |-> n]

PyBool(b) == [t |-> "bool", v |-> b]

PyDict(f) == [t |-> "dict", v |-> f]

PyObj == [t |-> "obj", v |-> 0]

PyList(s) == [t |-> "list", v |-> s]

PyTuple(s) == [t |-> "tuple", v |-> s]

\* An absent optional field (Python None for a config, a list or a mapping).
Absent == <<>>

Some(x) == <<x>>

IsSet(o) == o # <<>>

\* ---- generic helpers ----------------------------------------------------
Max(a, b) == IF a >= b THEN a ELSE b

Min(a, b) == IF a <= b THEN a ELSE b

RECURSIVE SumOver(_, _)
SumOver(S, f) ==
  IF S = {} THEN 0
  ELSE LET x == CHOOSE y \in S : TRUE IN f[x] + SumOver(S \ {x}, f)

\* Number of decimal digits of a natural number (str(n) for n >= 0).
RECURSIVE Digits(_)
Digits(n) == IF n < 10 THEN 1 ELSE 1 + Digits(n \div 10)

\* ---- models.py: ToolCall.arguments_size_bytes ----------------------------
\* Bytes one character takes inside a JSON string: quote and backslash are
\* escaped, every other character of the alphabet used here is one byte.
CharLen(c) == IF c \in {"\"", "\\"} THEN 2 ELSE 1

RECURSIVE Serializable(_)
Serializable(val) ==
  CASE val.t = "obj" -> FALSE
    [] val.t = "dict" -> \A k \in DOMAIN val.v : Serializable(val.v[k])
    [] val.t = "list" -> \A i \in DOMAIN val.v : Serializable(val.v[i])
    [] OTHER -> TRUE

\* len(json.dumps(val, ensure_ascii=False).encode("utf-8")), default
\* separators ", " and ": ".
RECURSIVE JsonLen(_)
JsonLen(val) ==
  CASE val.t = "null" -> 4
    [] val.t = "bool" -> IF val.v THEN 4 ELSE 5
    [] val.t = "int" -> IF val.v < 0 THEN 1 + Digits(-val.v) ELSE Digits(val.v)
    [] val.t = "float" -> (IF val.v < 0 THEN 1 + Digits(-val.v) ELSE Digits(val.v)) + 2
    [] val.t = "str" -> 2 + SumOver(DOMAIN val.v, [i \in DOMAIN val.v |-> CharLen(val.v[i])])
    [] val.t = "list" ->
         2 + SumOver(DOMAIN val.v, [i \in DOMAIN val.v |-> JsonLen(val.v[i])])
           + 2 * Max(0, Len(val.v) - 1)
    [] val.t = "dict" ->
         2 + SumOver(DOMAIN val.v,
                     [k \in DOMAIN val.v |-> Len(k) + 2 + 2 + JsonLen(val.v[k])])
           + 2 * Max(0, Cardinality(DOMAIN val.v) - 1)

HugeSize == 1000000000

arguments_size_bytes(arguments) ==
  IF Serializable(PyDict(arguments)) THEN JsonLen(PyDict(arguments)) ELSE HugeSize

\* ---- policy/schema.py -----------------------------------------------------
\* A regex pattern of a string constraint.  Two shapes are modelled:
\*   [kind |-> "class", cls |-> C, full |-> b]  the pattern ^[C]+$ (full) or
\*                                               [C]+ (not full);
\*   [kind |-> "invalid"]                        a pattern re.compile rejects.
ClassPattern(cls, full) == [kind |-> "class", cls |-> cls, full |-> full]

InvalidPattern == [kind |-> "invalid", cls |-> {}, full |-> FALSE]

Constraint(type, required, pattern, enum, min, max) ==
  [type |-> type, required |-> required, pattern |-> pattern, enum |-> enum,
   min |-> min, max |-> max]

AllowRule(tool, constraints, roles) ==
  [tool |-> tool, constraints |-> constraints, roles |-> roles]

DenyRule(tool, condition, reason) ==
  [tool |-> tool, condition |-> condition, reason |-> reason]

ValidateConfig(reject_unknown_args, max_arg_bytes) ==
  [reject_unknown_args |-> reject_unknown_args, max_arg_bytes |-> max_arg_bytes]

RateLimitConfig(enabled, limit_per_minute, burst, scope) ==
  [enabled |-> enabled, limit_per_minute |-> limit_per_minute, burst |-> burst,
   scope |-> scope]

DetectAttacksConfig(enabled, on_detect, fields) ==
  [enabled |-> enabled, on_detect |-> on_detect, fields |-> fields]

\* pii_phones keeps the schema's default (False) in every config of the model.
RedactConfig(enabled, deny_keys, pii_emails, max_string_len) ==
  [enabled |-> enabled, deny_keys |-> deny_keys, pii_emails |-> pii_emails,
   max_string_len |-> max_string_len]

AuditConfig(enabled, include_result, include_argument_values) ==
  [enabled |-> enabled, include_result |-> include_result,
   include_argument_values |-> include_argument_values]

\* ---- decisions.py -----------------------------------------------------------
\* A reason is the message text and the values formatted into it.
Reason(msg, arg) == [msg |-> msg, arg |-> arg]

Decision(allowed, reason, policy_id, remediation, layer) ==
  [allowed |-> allowed, reason |-> reason, policy_id |-> policy_id,
   remediation |-> remediation, layer |-> layer]

\* ---- Python comparison and regex primitives --------------------------------
IsNumeric(val) == val.t \in {"bool", "int", "float"}

\* The number a bool, int or float compares as (True == 1, 1 == 1.0).
NumVal(val) == IF val.t = "bool" THEN (IF val.v THEN 1 ELSE 0) ELSE val.v

\* Python's a == b on JSON-shaped values.
RECURSIVE PyEq(_, _)
PyEq(a, b) ==
  CASE IsNumeric(a) /\ IsNumeric(b) -> NumVal(a) = NumVal(b)
    [] a.t # b.t -> FALSE
    [] a.t = "list" ->
         /\ Len(a.v) = Len(b.v)
         /\ \A i \in DOMAIN a.v : PyEq(a.v[i], b.v[i])
    [] a.t = "dict" ->
         /\ DOMAIN a.v = DOMAIN b.v
         /\ \A k \in DOMAIN a.v : PyEq(a.v[k], b.v[k])
    [] OTHER -> a.v = b.v

\* dict.get(k): the value under k, None when k is missing.
DictGet(d, k) == IF k \in DOMAIN d THEN d[k] ELSE None

\* re.match(pattern, s) for a valid class pattern: [C]+ matches at the start
\* of s; the full form ^[C]+$ also needs the match to reach the end of s.
ReMatch(pattern, s) ==
  /\ Len(s) >= 1
  /\ s[1] \in pattern.cls
  /\ pattern.full => \A i \in DOMAIN s : s[i] \in pattern.cls

\* ---- policy/engine.py: PolicyEngine._validate_constraints ------------------
\* constraints is the rule's constraint mapping in insertion order: a
\* sequence of [name, c].
RECURSIVE RequiredPass(_, _, _)
RequiredPass(constraints, args, i) ==
  IF i > Len(constraints) THEN Absent
  ELSE IF constraints[i].c.required /\ constraints[i].name \notin DOMAIN args
       THEN Some(Reason("Missing required argument: <name>", <<constraints[i].name>>))
       ELSE RequiredPass(constraints, args, i + 1)

\* The checks of one present argument (engine.py lines 148-191).
TypedCheck(name, c, value) ==
  IF value = None
  THEN Some(Reason("Argument '<name>' must not be null", <<name>>))
  ELSE
  CASE c.type = "string" ->
         IF value.t # "str"
         THEN Some(Reason("Argument '<name>' must be a string", <<name>>))
         ELSE IF IsSet(c.pattern) /\ c.pattern[1].kind = "invalid"
         THEN Some(Reason("Invalid regex pattern in policy for '<name>'", <<name>>))
         ELSE IF IsSet(c.pattern) /\ ~ReMatch(c.pattern[1], value.v)
         THEN Some(Reason("Argument '<name>' does not match pattern", <<name>>))
         ELSE IF IsSet(c.enum) /\ ~(\E e \in c.enum[1] : PyEq(value, e))
         THEN Some(Reason("Argument '<name>' must be one of <enum>", <<name>>))
         ELSE Absent
    [] c.type = "boolean" ->
         IF value.t # "bool"
         THEN Some(Reason("Argument '<name>' must be a boolean", <<name>>))
         ELSE Absent
    [] c.type \in {"integer", "number"} ->
         IF c.type = "integer" /\ value.t # "int"
         THEN Some(Reason("Argument '<name>' must be an integer", <<name>>))
         ELSE IF c.type = "number" /\ value.t \notin {"int", "float"}
         THEN Some(Reason("Argument '<name>' must be a number", <<name>>))
         ELSE IF IsSet(c.min) /\ value.v < c.min[1]
         THEN Some(Reason("Argument '<name>' must be >= <min>", <<name>>))
         ELSE IF IsSet(c.max) /\ value.v > c.max[1]
         THEN Some(Reason("Argument '<name>' must be <= <max>", <<name>>))
         ELSE Absent
    [] OTHER ->
         Some(Reason("Unsupported constraint type for '<name>'", <<name>>))

RECURSIVE TypedPass(_, _, _)
TypedPass(constraints, args, i) ==
  IF i > Len(constraints) THEN Absent
  ELSE IF constraints[i].name \notin DOMAIN args
       THEN TypedPass(constraints, args, i + 1)
       ELSE LET err == TypedCheck(constraints[i].name, constraints[i].c,
                                  args[constraints[i].name])
            IN IF IsSet(err) THEN err ELSE TypedPass(constraints, args, i + 1)

\* Mutant of _validate_constraints: the required-presence pass is skipped.
validate_constraints_no_required_pass(constraints, args) ==
  TypedPass(constraints, args, 1)

\* Mutant of _validate_constraints: one pass, each constraint's presence and
\* typed checks together.
RECURSIVE validate_constraints_single_pass(_, _)
validate_constraints_single_pass(constraints, args) ==
  IF constraints = <<>> THEN Absent
  ELSE LET name == Head(constraints).name
           c == Head(constraints).c
           err == IF name \in DOMAIN args THEN TypedCheck(name, c, args[name])
                  ELSE Absent
       IN IF c.required /\ name \notin DOMAIN args
          THEN Some(Reason("Missing required argument: <name>", <<name>>))
          ELSE IF IsSet(err) THEN err
          ELSE validate_constraints_single_pass(Tail(constraints), args)

_validate_constraints(constraints, args) ==
  LET missing == RequiredPass(constraints, args, 1)
  IN IF IsSet(missing) THEN missing ELSE TypedPass(constraints, args, 1)

\* ---- policy/engine.py: PolicyEngine._match_deny -----------------------------
DenyRuleFires(rule, tool_call) ==
  /\ rule.tool = tool_call.tool_name
  /\ \/ ~IsSet(rule.condition)
     \/ \A k \in DOMAIN rule.condition[1] :
          PyEq(DictGet(tool_call.arguments, k), rule.condition[1][k])

\* The reason of the first deny rule that fires, Absent when none does.
RECURSIVE MatchDenyFrom(_, _, _)
MatchDenyFrom(deny_rules, tool_call, i) ==
  IF i > Len(deny_rules) THEN Absent
  ELSE IF DenyRuleFires(deny_rules[i], tool_call)
       THEN Some(Reason(deny_rules[i].reason, <<>>))
       ELSE MatchDenyFrom(deny_rules, tool_call, i + 1)

\* Mutant of _match_deny: only the first deny rule is looked at.
match_deny_first_rule_only(policy, tool_call) ==
  IF policy.deny_rules # <<>> /\ DenyRuleFires(policy.deny_rules[1], tool_call)
  THEN Some(Reason(policy.deny_rules[1].reason, <<>>))
  ELSE Absent

_match_deny(policy, tool_call) == MatchDenyFrom(policy.deny_rules, tool_call, 1)

\* ---- policy/engine.py: PolicyEngine._match_allow ----------------------------
\* The first allow rule with the invocation's tool name, with the error found
\* for it (Absent when it admits the call); Absent when no rule has the name.
RECURSIVE MatchAllowFrom(_, _, _)
MatchAllowFrom(allow_rules, tool_call, i) ==
  IF i > Len(allow_rules) THEN Absent
  ELSE IF allow_rules[i].tool # tool_call.tool_name
       THEN MatchAllowFrom(allow_rules, tool_call, i + 1)
       ELSE LET rule == allow_rules[i] IN
            IF IsSet(rule.roles) /\ rule.roles[1] \cap tool_call.roles = {}
            THEN Some([rule |-> rule,
                       err |-> Some(Reason("Actor role not permitted for this tool", <<>>))])
            ELSE Some([rule |-> rule,
                       err |-> _validate_constraints(rule.constraints,
                                                     tool_call.arguments)])

\* Mutant of _match_allow: a rule whose roles exclude the caller is passed
\* over and the next rule with the tool name is tried.
RECURSIVE match_allow_skips_role_mismatch(_, _)
match_allow_skips_role_mismatch(policy, tool_call) ==
  IF policy.allow_rules = <<>> THEN Absent
  ELSE LET rule == Head(policy.allow_rules)
           rest == [policy EXCEPT !.allow_rules = Tail(policy.allow_rules)]
       IN IF rule.tool # tool_call.tool_name
          THEN match_allow_skips_role_mismatch(rest, tool_call)
          ELSE IF IsSet(rule.roles) /\ rule.roles[1] \cap tool_call.roles = {}
          THEN match_allow_skips_role_mismatch(rest, tool_call)
          ELSE Some([rule |-> rule,
                     err |-> _validate_constraints(rule.constraints,
                                                   tool_call.arguments)])

_match_allow(policy, tool_call) == MatchAllowFrom(policy.allow_rules, tool_call, 1)

\* ---- policy/engine.py: PolicyEngine.evaluate --------------------------------
\* The universe of argument names in lexicographic order: sorted(S) lists the
\* members of S in this order.
SortedKeys == <<"extra", "msg", "n", "query">>

\* Mutant of Sorted: the members are listed in the reverse order.
sorted_descending(S) ==
  LET up == SelectSeq(SortedKeys, LAMBDA k : k \in S)
  IN [i \in 1..Len(up) |-> up[Len(up) + 1 - i]]

Sorted(S) == SelectSeq(SortedKeys, LAMBDA k : k \in S)

ConstraintNames(constraints) == {constraints[i].name : i \in DOMAIN constraints}

evaluate(policy, tool_call) ==
  LET vcfg == policy.validate_cfg
      denied == _match_deny(policy, tool_call)
      allow == _match_allow(policy, tool_call)
      unknown == DOMAIN tool_call.arguments \ ConstraintNames(allow[1].rule.constraints)
  IN
  IF /\ IsSet(vcfg)
     /\ vcfg[1].max_arg_bytes # 0
     /\ arguments_size_bytes(tool_call.arguments) > vcfg[1].max_arg_bytes
  THEN Decision(FALSE, Reason("Arguments too large (><max_arg_bytes> bytes)", <<>>),
                policy.policy_id, Some("Reduce arguments payload size."), "validate")
  ELSE IF IsSet(denied)
  THEN Decision(FALSE, denied[1], policy.policy_id, Absent, "authorize")
  ELSE IF IsSet(allow)
  THEN IF IsSet(allow[1].err)
       THEN Decision(FALSE, allow[1].err[1], policy.policy_id,
                     Some("Fix tool arguments to satisfy policy constraints."),
                     "validate")
       ELSE IF IsSet(vcfg) /\ vcfg[1].reject_unknown_args /\ unknown # {}
       THEN Decision(FALSE, Reason("Unknown arguments not allowed: <sorted>",
                                   Sorted(unknown)),
                     policy.policy_id, Some("Remove unknown arguments."), "validate")
       ELSE Decision(TRUE, Reason("Matched allow rule", <<>>), policy.policy_id,
                     Absent, "authorize")
  ELSE IF policy.default = "allow"
  THEN Decision(TRUE, Reason("No matching rule; default allow", <<>>),
                policy.policy_id, Absent, "authorize")
  ELSE Decision(FALSE, Reason("No matching rule; default deny", <<>>),
                policy.policy_id, Some("Request access via policy update."),
                "authorize")

(***************************************************************************)
(* Inputs of the engine: policies and invocations drawn from small sets.   *)
(***************************************************************************)
LowerCase ==
  {"a", "b", "c", "d", "e", "f", "g", "h", "i", "j", "k", "l", "m", "n", "o",
   "p", "q", "r", "s", "t", "u", "v", "w", "x", "y", "z"}

\* The constraints the allow rules of the engine inputs use.
CMsgFull == Constraint("string", TRUE, Some(ClassPattern(LowerCase, TRUE)),
                       Absent, Absent, Absent)

CMsgPrefixEnum ==
  Constraint("string", FALSE, Some(ClassPattern(LowerCase, FALSE)),
             Some({PyStr(<<"h", "i">>), PyStr(<<"h", "1">>)}), Absent, Absent)

CMsgBadRegex == Constraint("string", TRUE, Some(InvalidPattern), Absent, Absent, Absent)

CNInt == Constraint("integer", TRUE, Absent, Absent, Some(1), Some(5))

CNNumber == Constraint("number", FALSE, Absent, Absent, Some(2), Absent)

CExtraBool == Constraint("boolean", FALSE, Absent, Absent, Absent, Absent)

Named(name, c) == [name |-> name, c |-> c]

EvalAllowRules ==
  { <<>>,
    <<AllowRule("echo", <<Named("msg", CMsgFull)>>, Absent)>>,
    <<AllowRule("echo", <<Named("msg", CMsgPrefixEnum), Named("n", CNInt)>>,
                Some({"support"}))>>,
    <<AllowRule("echo", <<Named("n", CNNumber), Named("extra", CExtraBool)>>,
                Some({})),
      AllowRule("echo", <<>>, Absent)>>,
    <<AllowRule("hello", <<Named("msg", CMsgBadRegex)>>, Absent),
      AllowRule("echo", <<Named("n", CNNumber), Named("msg", CMsgFull),
                          Named("extra", CExtraBool)>>, Some({"admin", "support"}))>>,
    <<AllowRule("echo", <<>>, Some({"admin"})),
      AllowRule("echo", <<Named("msg", CMsgPrefixEnum)>>, Some({"support"})),
      AllowRule("hello", <<Named("n", CNInt), Named("msg", CMsgFull)>>, Absent)>> }

EvalDenyRules ==
  { <<>>,
    <<DenyRule("echo", Absent, "Denied by policy")>>,
    <<DenyRule("echo", Some([k \in {"msg"} |-> PyStr(<<"h", "i">>)]), "no hi")>>,
    <<DenyRule("echo", Some([k \in {"msg"} |-> PyStr(<<"h", "i">>)]), "no hi"),
      DenyRule("echo", Absent, "Denied by policy")>>,
    <<DenyRule("hello", Some(<<>>), "no hello"),
      DenyRule("echo", Some([k \in {"n"} |-> IF k = "n" THEN PyInt(1) ELSE None]),
               "no one")>>,
    <<DenyRule("echo", Some([k \in {"extra"} |-> None]), "no null extra"),
      DenyRule("echo", Some([k \in {"msg", "n"} |->
                               IF k = "n" THEN PyInt(3) ELSE PyStr(<<"h", "i">>)]),
               "no hi three")>> }

\* Bytes allowed by the validate configs that bound the arguments' size.
SmallArgBytes == 16

EvalValidateCfgs ==
  { Absent, Some(ValidateConfig(FALSE, 0)), Some(ValidateConfig(TRUE, 0)),
    Some(ValidateConfig(TRUE, SmallArgBytes)) }

Policy(policy_id, default, allow_rules, deny_rules, validate_cfg, rate_limit, detect_attacks, redact, audit) ==
  [policy_id |-> policy_id, default |-> default, allow_rules |-> allow_rules,
   deny_rules |-> deny_rules, validate_cfg |-> validate_cfg,
   rate_limit |-> rate_limit, detect_attacks |-> detect_attacks,
   redact |-> redact, audit |-> audit]

EvalPolicies ==
  { Policy("p1", d, ar, dr, vc, Absent, Absent, Absent, Absent) :
      d \in {"allow", "deny"}, ar \in EvalAllowRules, dr \in EvalDenyRules,
      vc \in EvalValidateCfgs }

EvalArguments ==
  { <<>>,
    [k \in {"msg"} |-> PyStr(<<"h", "i">>)],
    [k \in {"msg"} |-> PyStr(<<"h", "1">>)],
    [k \in {"msg"} |-> PyStr(<<"H", "i">>)],
    [k \in {"msg"} |-> None],
    [k \in {"msg"} |-> PyInt(5)],
    [k \in {"n"} |-> PyInt(1)],
    [k \in {"n"} |-> PyBool(TRUE)],
    [k \in {"n"} |-> PyFloat(7)],
    [k \in {"msg", "n"} |-> IF k = "n" THEN PyInt(3) ELSE PyStr(<<"h", "i">>)],
    [k \in {"msg", "n"} |-> IF k = "n" THEN PyInt(9) ELSE PyInt(0)],
    [k \in {"msg", "extra"} |-> IF k = "extra" THEN PyInt(1) ELSE PyStr(<<"h", "i">>)],
    [k \in {"n", "extra", "query"} |->
       IF k = "n" THEN PyInt(2) ELSE IF k = "extra" THEN PyBool(FALSE) ELSE PyObj] }

ToolCall(tool_name, arguments, actor, roles, client) ==
  [tool_name |-> tool_name, arguments |-> arguments, actor |-> actor,
   roles |-> roles, client |-> client]

EvalToolCalls ==
  { ToolCall(t, a, Absent, r, Absent) :
      t \in {"echo", "hello"}, a \in EvalArguments, r \in {{}, {"support"}} }

(***************************************************************************)
(* Character strings: the regular expressions of layers/detect_attacks.py  *)
(* and redaction.py, on strings as sequences of characters.                *)
(***************************************************************************)
LowerSeq ==
  <<"a", "b", "c", "d", "e", "f", "g", "h", "i", "j", "k", "l", "m", "n", "o",
    "p", "q", "r", "s", "t", "u", "v", "w", "x", "y", "z">>

UpperSeq ==
  <<"A", "B", "C", "D", "E", "F", "G", "H", "I", "J", "K", "L", "M", "N", "O",
    "P", "Q", "R", "S", "T", "U", "V", "W", "X", "Y", "Z">>

UpperCase == {UpperSeq[i] : i \in DOMAIN UpperSeq}

DigitChars == {"0", "1", "2", "3", "4", "5", "6", "7", "8", "9"}

\* str.lower() of one character (also how re.IGNORECASE compares).
ToLower(c) ==
  IF c \in UpperCase
  THEN LowerSeq[CHOOSE i \in DOMAIN UpperSeq : UpperSeq[i] = c]
  ELSE c

LowerStr(s) == [i \in DOMAIN s |-> ToLower(s[i])]

\* The first character of the truncation marker of redaction.py line 33 is a
\* letter (U+00E2); the other two (U+20AC, U+00A6) are symbols.
IsWordChar(c) == c \in LowerCase \cup UpperCase \cup DigitChars \cup {"_", "U+00E2"}

WordAt(s, i) == i \in DOMAIN s /\ IsWordChar(s[i])

\* \b between s[p-1] and s[p].
Boundary(s, p) == WordAt(s, p - 1) # WordAt(s, p)

\* The literal w is at position i of s (case-insensitively when ci).
LiteralAt(s, w, i, ci) ==
  /\ i >= 1
  /\ i + Len(w) - 1 <= Len(s)
  /\ \A j \in DOMAIN w :
       IF ci THEN ToLower(s[i + j - 1]) = w[j] ELSE s[i + j - 1] = w[j]

\* re.search of \b(w1|w2|...)\b.
SearchWord(s, words, ci) ==
  \E w \in words : \E i \in DOMAIN s :
    /\ LiteralAt(s, w, i, ci)
    /\ Boundary(s, i)
    /\ Boundary(s, i + Len(w))

\* ---- layers/detect_attacks.py ------------------------------------------------
SqlKeywords ==
  { <<"s", "e", "l", "e", "c", "t">>, <<"u", "n", "i", "o", "n">>,
    <<"i", "n", "s", "e", "r", "t">>, <<"u", "p", "d", "a", "t", "e">>,
    <<"d", "e", "l", "e", "t", "e">>, <<"d", "r", "o", "p">>,
    <<"a", "l", "t", "e", "r">> }

SQLI_RE(s) == SearchWord(s, SqlKeywords, TRUE)

TRAVERSAL_RE(s) ==
  \E i \in DOMAIN s :
    \/ LiteralAt(s, <<".", ".", "/">>, i, FALSE)
    \/ LiteralAt(s, <<".", ".", "\\">>, i, FALSE)

SsrfHosts ==
  { <<"1", "6", "9", ".", "2", "5", "4", ".", "1", "6", "9", ".", "2", "5", "4">>,
    <<"l", "o", "c", "a", "l", "h", "o", "s", "t">>,
    <<"1", "2", "7", ".", "0", ".", "0", ".", "1">> }

SSRF_RE(s) == SearchWord(s, SsrfHosts, TRUE)

\* The walk without the descent into lists.
RECURSIVE collect_strings_skips_lists(_, _)
collect_strings_skips_lists(obj, keys_of_interest) ==
  CASE obj.t = "dict" ->
         UNION { (IF k \in keys_of_interest /\ obj.v[k].t = "str"
                  THEN {obj.v[k].v} ELSE {})
                 \cup collect_strings_skips_lists(obj.v[k], keys_of_interest) :
                 k \in DOMAIN obj.v }
    [] OTHER -> {}

\* The strings found under a key of interest, at any depth of mappings and
\* lists (the generator's output, as the set any() ranges over).
RECURSIVE _collect_strings(_, _)
_collect_strings(obj, keys_of_interest) ==
  CASE obj.t = "dict" ->
         UNION { (IF k \in keys_of_interest /\ obj.v[k].t = "str"
                  THEN {obj.v[k].v} ELSE {})
                 \cup _collect_strings(obj.v[k], keys_of_interest) :
                 k \in DOMAIN obj.v }
    [] obj.t = "list" ->
         UNION { _collect_strings(obj.v[i], keys_of_interest) : i \in DOMAIN obj.v }
    [] OTHER -> {}

\* detect_attacks_layer lines 31-34.
Suspicious(arguments, fields) ==
  \E h \in _collect_strings(PyDict(arguments), fields) :
    SQLI_RE(h) \/ TRAVERSAL_RE(h) \/ SSRF_RE(h)

\* ---- redaction.py ---------------------------------------------------------------
DEFAULT_DENY_KEYS == {"password", "token", "secret", "api_key", "authorization"}

\* The characters of [A-Z0-9._%+-] and [A-Z0-9.-] under re.IGNORECASE.
EmailLocalChars == LowerCase \cup UpperCase \cup DigitChars \cup {".", "_", "%", "+", "-"}

EmailDomainChars == LowerCase \cup UpperCase \cup DigitChars \cup {".", "-"}

Letters == LowerCase \cup UpperCase

\* The last index of the longest run of characters of cls that starts at i
\* (i - 1 when s[i] is not in cls).
RECURSIVE RunEnd(_, _, _)
RunEnd(s, cls, i) ==
  IF i \in DOMAIN s /\ s[i] \in cls THEN RunEnd(s, cls, i + 1) ELSE i - 1

\* Where the EMAIL_RE match that starts at i ends (the index after its last
\* character), 0 when no match starts at i.  The local part is the whole run
\* of local characters, which "@" must follow; the greedy domain part gives
\* back characters until a "." is followed by two or more letters that end
\* at a word boundary.
EmailEnd(s, i) ==
  LET k == RunEnd(s, EmailLocalChars, i)
      at == k + 1
      m == RunEnd(s, EmailDomainChars, at + 1)
      dots == { d \in (at + 2)..m :
                  /\ s[d] = "."
                  /\ RunEnd(s, Letters, d + 1) - d >= 2
                  /\ Boundary(s, RunEnd(s, Letters, d + 1) + 1) }
  IN IF /\ i \in DOMAIN s
        /\ Boundary(s, i)
        /\ k >= i
        /\ at \in DOMAIN s
        /\ s[at] = "@"
        /\ dots # {}
     THEN RunEnd(s, Letters, (CHOOSE d \in dots : \A e \in dots : e <= d) + 1) + 1
     ELSE 0

REDACTED_EMAIL ==
  <<"[", "R", "E", "D", "A", "C", "T", "E", "D", "_", "E", "M", "A", "I", "L", "]">>

REDACTED == <<"[", "R", "E", "D", "A", "C", "T", "E", "D", "]">>

\* The marker appended to a truncated string (redaction.py line 33): three
\* characters.
TruncationMarker == <<"U+00E2", "U+20AC", "U+00A6">>

\* Mutant of EmailSubFrom: only the first match is replaced (count=1).
RECURSIVE EmailSubFirstFrom(_, _)
EmailSubFirstFrom(s, i) ==
  IF i > Len(s) THEN <<>>
  ELSE IF EmailEnd(s, i) > 0
       THEN REDACTED_EMAIL \o SubSeq(s, EmailEnd(s, i), Len(s))
       ELSE <<s[i]>> \o EmailSubFirstFrom(s, i + 1)

\* EMAIL_RE.sub("[REDACTED_EMAIL]", s), scanning from position i.
RECURSIVE EmailSubFrom(_, _)
EmailSubFrom(s, i) ==
  IF i > Len(s) THEN <<>>
  ELSE IF EmailEnd(s, i) > 0
       THEN REDACTED_EMAIL \o EmailSubFrom(s, EmailEnd(s, i))
       ELSE <<s[i]>> \o EmailSubFrom(s, i + 1)

\* redact_value on a string (lines 30-38).  pii_phones is False in every
\* config the model draws (the schema's default), so PHONE_RE is not applied.
RedactString(s, pii_emails, max_string_len) ==
  LET cut == IF max_string_len # 0 /\ Len(s) > max_string_len
             THEN SubSeq(s, 1, max_string_len) \o TruncationMarker
             ELSE s
  IN IF pii_emails THEN EmailSubFrom(cut, 1) ELSE cut

\* key.lower() of a mapping key.  Keys are atomic strings in the model; the
\* keys with an upper-case letter that the inputs use are listed here.
KeyLower(key) ==
  CASE key = "Token" -> "token"
    [] key = "PASSWORD" -> "password"
    [] OTHER -> key

_should_redact_key(key, deny_keys) ==
  \E dk \in deny_keys : KeyLower(key) = KeyLower(dk)

\* str(value) of an object that is not JSON-shaped.
ObjRepr == <<"<", "o", "b", "j", ">">>

\* Mutant of redact_value: a tuple is rebuilt as a list.
RECURSIVE redact_value_tuples_to_lists(_, _, _, _)
redact_value_tuples_to_lists(value, deny_keys, pii_emails, max_string_len) ==
  LET dks == IF deny_keys = {} THEN DEFAULT_DENY_KEYS ELSE deny_keys IN
  CASE value.t = "null" -> None
    [] value.t = "str" -> PyStr(RedactString(value.v, pii_emails, max_string_len))
    [] value.t \in {"int", "float", "bool"} -> value
    [] value.t \in {"list", "tuple"} ->
         PyList([i \in DOMAIN value.v |->
                   redact_value_tuples_to_lists(value.v[i], dks, pii_emails,
                                                max_string_len)])
    [] value.t = "dict" ->
         PyDict([k \in DOMAIN value.v |->
                   IF _should_redact_key(k, dks)
                   THEN PyStr(REDACTED)
                   ELSE redact_value_tuples_to_lists(value.v[k], dks, pii_emails,
                                                     max_string_len)])
    [] OTHER -> PyStr(RedactString(ObjRepr, pii_emails, max_string_len))

RECURSIVE redact_value(_, _, _, _)
redact_value(value, deny_keys, pii_emails, max_string_len) ==
  LET dks == IF deny_keys = {} THEN DEFAULT_DENY_KEYS ELSE deny_keys IN
  CASE value.t = "null" -> None
    [] value.t = "str" -> PyStr(RedactString(value.v, pii_emails, max_string_len))
    [] value.t \in {"int", "float", "bool"} -> value
    [] value.t \in {"list", "tuple"} ->
         [t |-> value.t,
          v |-> [i \in DOMAIN value.v |->
                   redact_value(value.v[i], dks, pii_emails, max_string_len)]]
    [] value.t = "dict" ->
         PyDict([k \in DOMAIN value.v |->
                   IF _should_redact_key(k, dks)
                   THEN PyStr(REDACTED)
                   ELSE redact_value(value.v[k], dks, pii_emails, max_string_len)])
    [] OTHER -> PyStr(RedactString(ObjRepr, pii_emails, max_string_len))

(***************************************************************************)
(* rate_limit.py: the token bucket.  Token balances are counted in tenths  *)
(* of a token and time in whole seconds, so a refill rate of 0.1 token per *)
(* second (the floor of line 38) is one unit per second.                   *)
(***************************************************************************)
Tenths(n) == n * 10

TokenBucket(capacity, refill_per_sec, tokens, last_ts) ==
  [capacity |-> capacity, refill_per_sec |-> refill_per_sec, tokens |-> tokens,
   last_ts |-> last_ts]

\* max(0.1, limit_per_minute / 60.0) in tenths of a token per second: exact
\* for limit_per_minute < 6 (the floor) and for multiples of 6.
RefillPerSec(limit_per_minute) ==
  Max(1, (limit_per_minute * 10) \div 60)

\* max(1, burst if burst else limit_per_minute): a burst of 0 is the only
\* one that falls back to limit_per_minute.
Capacity(limit_per_minute, burst) ==
  Max(1, IF burst # 0 THEN burst ELSE limit_per_minute)

\* take with a refill that ignores the rate: any elapsed time fills the bucket.
take_refills_to_capacity(b, t) ==
  LET refilled == IF t > b.last_ts THEN Tenths(b.capacity) ELSE b.tokens
  IN IF refilled >= Tenths(1)
     THEN [ok |-> TRUE, remaining |-> (refilled - Tenths(1)) \div 10,
           bucket |-> [b EXCEPT !.last_ts = t, !.tokens = refilled - Tenths(1)]]
     ELSE [ok |-> FALSE, remaining |-> refilled \div 10,
           bucket |-> [b EXCEPT !.last_ts = t, !.tokens = refilled]]

\* TokenBucket.take(1) with time.time() = t: the result and the bucket after.
take(b, t) ==
  LET elapsed == Max(0, t - b.last_ts)
      refilled == Min(Tenths(b.capacity), b.tokens + elapsed * b.refill_per_sec)
  IN IF refilled >= Tenths(1)
     THEN [ok |-> TRUE, remaining |-> (refilled - Tenths(1)) \div 10,
           bucket |-> [b EXCEPT !.last_ts = t, !.tokens = refilled - Tenths(1)]]
     ELSE [ok |-> FALSE, remaining |-> refilled \div 10,
           bucket |-> [b EXCEPT !.last_ts = t, !.tokens = refilled]]

\* Mutant of allow: an existing bucket takes the capacity and the refill rate
\* of the call.
allow_resizes_bucket(bucket_map, key, limit_per_minute, burst, t) ==
  LET cap == Capacity(limit_per_minute, burst)
      b == IF key \in DOMAIN bucket_map
           THEN [bucket_map[key] EXCEPT !.capacity = cap,
                                        !.refill_per_sec = RefillPerSec(limit_per_minute)]
           ELSE TokenBucket(cap, RefillPerSec(limit_per_minute), Tenths(cap), t)
      r == take(b, t)
  IN [ok |-> r.ok,
      meta |-> [limit |-> limit_per_minute,
                burst |-> IF burst # 0 THEN burst ELSE cap,
                remaining |-> Max(0, r.remaining)],
      buckets |-> [k \in DOMAIN bucket_map \cup {key} |->
                     IF k = key THEN r.bucket ELSE bucket_map[k]]]

\* InMemoryRateLimiter.allow with both clock readings equal to t: the bucket
\* map after, the verdict and the telemetry.
allow(bucket_map, key, limit_per_minute, burst, t) ==
  LET cap == Capacity(limit_per_minute, burst)
      b == IF key \in DOMAIN bucket_map
           THEN bucket_map[key]
           ELSE TokenBucket(cap, RefillPerSec(limit_per_minute), Tenths(cap), t)
      r == take(b, t)
  IN [ok |-> r.ok,
      meta |-> [limit |-> limit_per_minute,
                burst |-> IF burst # 0 THEN burst ELSE cap,
                remaining |-> Max(0, r.remaining)],
      buckets |-> [k \in DOMAIN bucket_map \cup {key} |->
                     IF k = key THEN r.bucket ELSE bucket_map[k]]]

\* ---- layers/rate_limit.py: _key -----------------------------------------------
\* The characters of a string value joined into one string.
RECURSIVE Join(_)
Join(s) == IF s = <<>> THEN "" ELSE s[1] \o Join(Tail(s))

\* str(value) as an f-string formats it.
Format(value) ==
  CASE value.t = "str" -> Join(value.v)
    [] value.t = "int" -> ToString(value.v)
    [] OTHER -> "None"

ActorOrUnknown(tc) ==
  IF IsSet(tc.actor) /\ tc.actor[1] # "" THEN tc.actor[1] ELSE "unknown"

SessionOrUnknown(tc) ==
  IF IsSet(tc.client) /\ "session_id" \in DOMAIN tc.client[1]
  THEN Format(tc.client[1]["session_id"])
  ELSE "unknown"

_key(cfg, tc) ==
  IF ~IsSet(cfg) THEN "global"
  ELSE CASE cfg[1].scope = "actor" -> "actor:" \o ActorOrUnknown(tc)
         [] cfg[1].scope = "session" -> "session:" \o SessionOrUnknown(tc)
         [] cfg[1].scope = "tool" -> "tool:" \o tc.tool_name
         [] cfg[1].scope = "actor+tool" ->
              "actor:" \o ActorOrUnknown(tc) \o ":tool:" \o tc.tool_name
         [] OTHER -> "global"

\* ---- audit/logger.py: AuditLogger.log ------------------------------------------
\* The event written to the sink, fields with a null value dropped (an
\* optional field is Absent).  request_id and latency_ms are null in every
\* call of the model and the timestamp is left out.
AuditEvent(logger, tool_call, decision, reason, policy_id, layer, result, include_result, include_argument_values) ==
  [action |-> "tool_call",
   tool_name |-> tool_call.tool_name,
   decision |-> decision,
   reason |-> reason,
   policy_id |-> policy_id,
   actor |-> tool_call.actor,
   layer |-> layer,
   arguments_summary |-> [keys |-> Sorted(DOMAIN tool_call.arguments),
                          key_count |-> Cardinality(DOMAIN tool_call.arguments)],
   client |-> IF IsSet(tool_call.client)
              THEN Some(redact_value(PyDict(tool_call.client[1]), logger.deny_keys,
                                     TRUE, 2048))
              ELSE Absent,
   arguments |-> IF include_argument_values
                 THEN Some(redact_value(PyDict(tool_call.arguments),
                                        logger.deny_keys, TRUE, 2048))
                 ELSE Absent,
   result |-> IF include_result /\ result # None
              THEN Some(redact_value(result, logger.deny_keys, TRUE, 2048))
              ELSE Absent]

\* ---- pipeline/context.py: CallContext --------------------------------------------
NoLayer == "None"

CallContext(tool_call, policy_id) ==
  [tool_call |-> tool_call, policy_id |-> policy_id, decision |-> Absent,
   tool_result |-> None, layer |-> NoLayer, meta |-> <<>>]

\* ---- enforcement/wrapper.py, pipeline/pipeline.py ---------------------------------
\* Mutant of Layers: authorize_layer is listed before rate_limit_layer.
LayersAuthorizeBeforeRateLimit ==
  <<"validate", "authorize", "rate_limit", "detect_attacks", "redact", "audit">>

\* Mutant of Layers: rate_limit_layer is listed after detect_attacks_layer.
LayersRateLimitAfterDetect ==
  <<"validate", "authorize", "detect_attacks", "rate_limit", "redact", "audit">>

\* The list Enforcer.enforce hands to Pipeline (wrapper.py lines 33-40).
Layers ==
  <<"validate", "rate_limit", "authorize", "detect_attacks", "redact", "audit">>

\* Pipeline.execute lines 26-33: starting from forward, each layer of the
\* reversed list is wrapped around what was built so far.  The result lists
\* the callables from the outermost (called first) to forward.
RECURSIVE WrapFrom(_, _, _)
WrapFrom(layers, i, nxt) ==
  IF i = 0 THEN nxt ELSE WrapFrom(layers, i - 1, <<layers[i]>> \o nxt)

Chain == WrapFrom(Layers, Len(Layers), <<"forward">>)

(***************************************************************************)
(* Inputs of the pipeline: the Enforcer's policy and audit sink, the       *)
(* invocations and what the tool function does.                            *)
(***************************************************************************)
PipeAllowRules ==
  << AllowRule("echo", <<Named("msg", CMsgFull)>>, Absent),
     AllowRule("search",
               <<Named("query", Constraint("string", TRUE, Absent, Absent, Absent, Absent))>>,
               Some({"support"})) >>

PipeDenyRules == << DenyRule("rm", Absent, "Denied by policy") >>

PipeValidate == Some(ValidateConfig(TRUE, SmallArgBytes))

PipeDetect == Some(DetectAttacksConfig(TRUE, "deny", {"query"}))

PipeRedact == Some(RedactConfig(TRUE, {"token"}, TRUE, 2048))

PipeAudit == Some(AuditConfig(TRUE, TRUE, TRUE))

PipeRate == Some(RateLimitConfig(TRUE, 60, 2, "actor"))

PipePolicy(default, validate_cfg, rate_limit, detect_attacks, redact, audit) ==
  Policy("p1", default, PipeAllowRules, PipeDenyRules, validate_cfg, rate_limit,
         detect_attacks, redact, audit)

\* An Enforcer: the engine's policy and the audit sink (Absent: no sink).
Enforcer(policy, audit_logger) == [policy |-> policy, audit_logger |-> audit_logger]

Sink == Some([deny_keys |-> DEFAULT_DENY_KEYS])

Enforcers ==
  { \* every layer configured and enabled
    Enforcer(PipePolicy("deny", PipeValidate, PipeRate, PipeDetect, PipeRedact, PipeAudit), Sink),
    \* nothing configured: every layer passes through
    Enforcer(PipePolicy("deny", Absent, Absent, Absent, Absent, Absent), Absent),
    Enforcer(PipePolicy("allow", Absent, Absent, Absent, Absent, Absent), Sink),
    \* one layer at a time
    Enforcer(PipePolicy("allow", PipeValidate, Absent, Absent, Absent, PipeAudit), Sink),
    Enforcer(PipePolicy("deny", Some(ValidateConfig(FALSE, 0)), Absent, PipeDetect,
                        Absent, Absent), Sink),
    Enforcer(PipePolicy("deny", Absent, Absent,
                        Some(DetectAttacksConfig(TRUE, "allow", {"query"})),
                        PipeRedact, Some(AuditConfig(FALSE, FALSE, FALSE))), Sink),
    Enforcer(PipePolicy("allow", Absent, Absent,
                        Some(DetectAttacksConfig(FALSE, "deny", {"query"})),
                        Some(RedactConfig(FALSE, {"token"}, TRUE, 2048)),
                        Some(AuditConfig(TRUE, FALSE, FALSE))), Absent),
    Enforcer(PipePolicy("deny", Absent, Absent, Absent,
                        Some(RedactConfig(TRUE, {}, FALSE, 4)), PipeAudit), Sink),
    \* rate limiting: each scope, burst set, unset and negative, limit 0, disabled
    Enforcer(PipePolicy("allow", Absent, PipeRate, PipeDetect, Absent, Absent), Sink),
    Enforcer(PipePolicy("allow", Absent, Some(RateLimitConfig(TRUE, 1, 0, "tool")),
                        Absent, Absent, PipeAudit), Sink),
    Enforcer(PipePolicy("deny", PipeValidate,
                        Some(RateLimitConfig(TRUE, 12, 1, "session")),
                        Absent, Absent, Absent), Absent),
    Enforcer(PipePolicy("allow", Absent,
                        Some(RateLimitConfig(TRUE, 2, -1, "actor+tool")),
                        Absent, Absent, Absent), Sink),
    Enforcer(PipePolicy("deny", Absent, Some(RateLimitConfig(TRUE, 0, 2, "actor")),
                        Absent, Absent, PipeAudit), Sink),
    Enforcer(PipePolicy("deny", Absent, Some(RateLimitConfig(FALSE, 60, 2, "actor")),
                        Absent, PipeRedact, Absent), Sink) }

Hi == <<"h", "i">>

DropTable ==
  <<"1", ";", " ", "D", "R", "O", "P", " ", "T", "A", "B", "L", "E", " ",
    "u", "s", "e", "r", "s">>

ToolCalls ==
  { ToolCall("echo", [k \in {"msg"} |-> PyStr(Hi)], Some("a"), {},
             Some([k \in {"session_id"} |-> PyStr(<<"s", "1">>)])),
    ToolCall("echo",
             [k \in {"msg", "extra"} |-> IF k = "msg" THEN PyStr(Hi) ELSE PyInt(1)],
             Some("a"), {}, Absent),
    ToolCall("search", [k \in {"query"} |-> PyStr(DropTable)], Some("b"),
             {"support"}, Some([k \in {"token"} |-> PyStr(<<"x">>)])),
    ToolCall("search", [k \in {"query"} |-> PyStr(<<".", ".", "/">>)], Some("a"),
             {"support"}, Absent),
    ToolCall("search",
             [k \in {"query"} |-> PyStr(<<"l", "o", "c", "a", "l", "h", "o", "s", "t">>)],
             Absent, {}, Absent),
    ToolCall("rm", <<>>, Some("a"), {"support"}, Absent),
    ToolCall("hello", <<>>, Some("b"), {}, Absent) }

\* What the tool function returns when it returns.
ToolResults ==
  { None,
    PyDict([k \in {"token", "note"} |->
              IF k = "token" THEN PyStr(<<"a", "b", "c">>)
              ELSE PyStr(<<"m", "a", "i", "l", " ", "a", "@", "b", ".", "c", "o">>)]) }

\* Executes one Enforcer runs.
MaxCalls == 3

\* Last reading of the clock, in seconds.
MaxTime == 2

(***************************************************************************)
(* State.                                                                  *)
(***************************************************************************)
VARIABLES
  evalPolicy,    \* SpecEval: the engine's policy
  evalCall,      \* SpecEval: the invocation handed to evaluate
  evalDecision,  \* SpecEval: the Decision evaluate returned, Absent before
  enforcer,      \* Spec: the Enforcer: its engine's policy and its audit sink
  _buckets,      \* Spec: InMemoryRateLimiter._buckets, key -> TokenBucket
  now,           \* Spec: the last reading of time.time()
  nCalls,        \* Spec: executes started so far
  pc,            \* Spec: "idle", or where the running execute is:
                 \*   "call" (Chain[depth] is being called), "return" / "raise"
                 \*   (a value / an exception reaches Chain[depth]), "done"
  depth,         \* Spec: index into Chain; 0 is the caller of execute
  ctx,           \* Spec: the CallContext of the running execute (ctx.tool_call
                 \*   is its invocation)
  flight,        \* Spec: the value returned or exception raised, in flight
  toolCalls,     \* Spec: times tool_fn was called in this execute
  events,        \* Spec: audit events this execute wrote to the sink
  trace,         \* Spec: the callables of Chain entered in this execute, in order
  outcome,       \* Spec: what the caller of execute received
  start,         \* Spec: the bucket map when this execute began
  rlHist,        \* Spec: the limiter calls so far: key, clock reading, verdict
  limBuckets,    \* SpecLimiter: InMemoryRateLimiter._buckets, key -> reference
                 \*   to a TokenBucket in limHeap (0: the key is missing)
  limHeap,       \* SpecLimiter: the TokenBucket objects created so far
  limClock,      \* SpecLimiter: what time.time() returns
  limCfg,        \* SpecLimiter: limit_per_minute and burst of the calls
  limTokens0,    \* SpecLimiter: the balance of the existing bucket at the start
  thread,        \* SpecLimiter: each thread's position in allow / take and
                 \*   its local variables
  rateCfg,       \* SpecRate: limit_per_minute and burst of the calls
  rateBuckets,   \* SpecRate: InMemoryRateLimiter._buckets, key -> TokenBucket
  rateNow,       \* SpecRate: what time.time() returns
  rateHist,      \* SpecRate: the allow calls so far: key, clock reading,
                 \*   verdict and the bucket's balance after the call
  detCfg,        \* SpecDetect: policy.detect_attacks
  detArgs,       \* SpecDetect: ctx.tool_call.arguments
  detOut,        \* SpecDetect: what detect_attacks_layer did, Absent before
  redCfg,        \* SpecRedact: the arguments of redact_value besides the value
  redValue,      \* SpecRedact: the value handed to redact_value
  redOnce,       \* SpecRedact: redact_value(redValue), Absent before
  redTwice,      \* SpecRedact: redact_value of redOnce, Absent before
  valCfg,        \* SpecValidate: policy.validate_cfg
  valArgs,       \* SpecValidate: ctx.tool_call.arguments
  valOut,        \* SpecValidate: what validate_layer did, Absent before
  ctxThread,     \* SpecCtx: each thread's position in execute, its invocation and its reference to the CallContext of its execute
  ctxHeap,       \* SpecCtx: the CallContext objects created so far
  ctxBuckets,    \* SpecCtx: InMemoryRateLimiter._buckets of the one Enforcer
  ctxEvents      \* SpecCtx: the audit events written to the sink

evalVars == <<evalPolicy, evalCall, evalDecision>>

pipeVars ==
  <<enforcer, _buckets, now, nCalls, pc, depth, ctx, flight, toolCalls,
    events, trace, outcome, start, rlHist>>

limVars == <<limBuckets, limHeap, limClock, limCfg, limTokens0, thread>>

rateVars == <<rateCfg, rateBuckets, rateNow, rateHist>>

\* The variables of the specifications added to the first three.
detVars == <<detCfg, detArgs, detOut>>

redVars == <<redCfg, redValue, redOnce, redTwice>>

valVars == <<valCfg, valArgs, valOut>>

ctxVars == <<ctxThread, ctxHeap, ctxBuckets, ctxEvents>>

auxVars == <<rateVars, detVars, redVars, valVars, ctxVars>>

vars == <<evalVars, pipeVars, limVars, auxVars>>

\* The engine is not in use (the other specifications).
EvalIdle ==
  /\ evalPolicy = Policy("p1", "deny", <<>>, <<>>, Absent, Absent, Absent, Absent, Absent)
  /\ evalCall = ToolCall("hello", <<>>, Absent, {}, Absent)
  /\ evalDecision = Absent

NoFlight == [kind |-> "none", value |-> None, decision |-> Absent]

Returned(value) == [kind |-> "value", value |-> value, decision |-> Absent]

\* decisions.py: PolicyDeniedError(decision).
PolicyDeniedError(decision) ==
  [kind |-> "PolicyDeniedError", value |-> None, decision |-> Some(decision)]

\* An exception derived from Exception that the tool function raised.
ToolError == [kind |-> "ToolError", value |-> None, decision |-> Absent]

\* An exception outside Exception (KeyboardInterrupt, SystemExit) that the
\* tool function raised.
ToolExit == [kind |-> "ToolExit", value |-> None, decision |-> Absent]

\* Enforcer.__init__ and no execute yet.
PipeStart ==
  /\ _buckets = <<>>
  /\ now = 0
  /\ nCalls = 0
  /\ pc = "idle"
  /\ depth = 0
  /\ ctx = CallContext(ToolCall("hello", <<>>, Absent, {}, Absent), "p1")
  /\ flight = NoFlight
  /\ toolCalls = 0
  /\ events = <<>>
  /\ trace = <<>>
  /\ outcome = NoFlight
  /\ start = <<>>
  /\ rlHist = <<>>

\* Threads that call the shared limiter concurrently.
NumThreads == 2

Threads == 1..NumThreads

\* The keys the threads use: a bucket exists for the first, none for the second.
ExistingKey == "actor:a"

UnseenKey == "actor:b"

\* Last value of the clock of the concurrent calls.
LimMaxTime == 1

LimiterConfigs ==
  { [limit_per_minute |-> 60, burst |-> 1], [limit_per_minute |-> 60, burst |-> 2] }

IdleThread ==
  [pc |-> "idle", key |-> "", b |-> 0, now |-> 0, elapsed |-> 0, refilled |-> 0,
   loaded |-> 0, ok |-> FALSE, remaining |-> 0]

LimStart ==
  /\ limBuckets = [k \in {ExistingKey, UnseenKey} |-> IF k = ExistingKey THEN 1 ELSE 0]
  /\ limHeap = <<TokenBucket(Capacity(limCfg.limit_per_minute, limCfg.burst),
                             RefillPerSec(limCfg.limit_per_minute), limTokens0, 0)>>
  /\ limClock = 0
  /\ thread = [t \in Threads |-> IdleThread]

\* No thread uses a limiter (the other specifications).
LimIdle ==
  /\ limCfg = [limit_per_minute |-> 60, burst |-> 1]
  /\ limTokens0 = Tenths(1)
  /\ LimStart

\* No limiter is called one call after another (the other specifications).
RateIdle ==
  /\ rateCfg = [limit_per_minute |-> 6, burst |-> 1]
  /\ rateBuckets = <<>>
  /\ rateNow = 0
  /\ rateHist = <<>>

\* The attack scan is not in use (the other specifications).
DetIdle ==
  /\ detCfg = Absent
  /\ detArgs = <<>>
  /\ detOut = Absent

\* redact_value is not in use (the other specifications).
RedIdle ==
  /\ redCfg = [deny_keys |-> {}, pii_emails |-> FALSE, max_string_len |-> 0]
  /\ redValue = None
  /\ redOnce = Absent
  /\ redTwice = Absent

ValIdle ==
  /\ valCfg = Absent
  /\ valArgs = <<>>
  /\ valOut = Absent

\* The threads that call Enforcer.enforce on one Enforcer.
CtxThreads == {1, 2}

\* A thread outside enforce: how many calls of enforce it has made (n) and,
\* unset, the locals of Pipeline.execute and of the layers on its stack: the
\* tool_call parameter, the reference ctx, the bucket InMemoryRateLimiter.allow
\* got from the map, the meta allow returned and what forward() did.
CtxIdleThread ==
  [pc |-> "idle", n |-> 0, tool_call |-> Absent, ref |-> 0, b |-> Absent,
   rl |-> Absent, flight |-> Absent]

CtxIdle ==
  /\ ctxThread = [th \in CtxThreads |-> CtxIdleThread]
  /\ ctxHeap = <<>>
  /\ ctxBuckets = <<>>
  /\ ctxEvents = <<>>

AuxIdle == RateIdle /\ DetIdle /\ RedIdle /\ ValIdle /\ CtxIdle

\* No Enforcer is in use (the other specifications).
PipeIdle ==
  /\ enforcer = Enforcer(PipePolicy("deny", Absent, Absent, Absent, Absent, Absent), Absent)
  /\ PipeStart

(***************************************************************************)
(* Spec: Enforcer.enforce and Pipeline.execute, one step per callable of   *)
(* the chain entered, returned to or raised into.                          *)
(***************************************************************************)
Init ==
  /\ enforcer \in Enforcers
  /\ PipeStart
  /\ EvalIdle
  /\ LimIdle
  /\ AuxIdle

policy == enforcer.policy

\* A layer calls nxt(): the next callable of the chain is entered.
CallNext ==
  /\ pc' = "call"
  /\ depth' = depth + 1
  /\ flight' = flight

\* A layer stores its denying Decision in ctx and raises PolicyDeniedError.
Deny(decision) ==
  /\ ctx' = [ctx EXCEPT !.decision = Some(decision), !.layer = decision.layer]
  /\ flight' = PolicyDeniedError(decision)
  /\ pc' = "raise"
  /\ depth' = depth - 1

\* Chain[depth] is entered.
Entered(name) ==
  /\ pc = "call"
  /\ Chain[depth] = name
  /\ trace' = Append(trace, name)

\* Enforcer.enforce -> Pipeline.execute: a fresh CallContext, the chain is
\* built and its outermost callable is called.
Enforce ==
  /\ pc \in {"idle", "done"}
  /\ nCalls < MaxCalls
  /\ \E tc \in ToolCalls : ctx' = CallContext(tc, policy.policy_id)
  /\ nCalls' = nCalls + 1
  /\ pc' = "call"
  /\ depth' = 1
  /\ flight' = NoFlight
  /\ toolCalls' = 0
  /\ events' = <<>>
  /\ trace' = <<>>
  /\ outcome' = NoFlight
  /\ start' = _buckets
  /\ UNCHANGED <<enforcer, _buckets, now, rlHist, evalVars, limVars, auxVars>>

\* layers/validate.py: validate_layer._layer.
ValidateLayer ==
  /\ Entered("validate")
  /\ LET cfg == policy.validate_cfg IN
     IF /\ IsSet(cfg)
        /\ cfg[1].max_arg_bytes # 0
        /\ arguments_size_bytes(ctx.tool_call.arguments) > cfg[1].max_arg_bytes
     THEN Deny(Decision(FALSE, Reason("Arguments too large (><max_arg_bytes> bytes)", <<>>),
                        policy.policy_id, Some("Reduce arguments payload size."),
                        "validate"))
     ELSE CallNext /\ UNCHANGED ctx
  /\ UNCHANGED <<enforcer, _buckets, now, nCalls, toolCalls, events, outcome, start,
                 rlHist, evalVars, limVars, auxVars>>

\* layers/rate_limit.py: rate_limit_layer._layer.  The clock reading t of
\* limiter.allow is any time from the last reading on.
RateLimitLayer ==
  /\ Entered("rate_limit")
  /\ LET cfg == policy.rate_limit IN
     IF ~IsSet(cfg) \/ ~cfg[1].enabled \/ cfg[1].limit_per_minute = 0
     THEN /\ CallNext
          /\ UNCHANGED <<ctx, _buckets, now, rlHist>>
     ELSE \E t \in now..MaxTime :
            LET key == _key(cfg, ctx.tool_call)
                r == allow(_buckets, key, cfg[1].limit_per_minute, cfg[1].burst, t)
                withMeta == [ctx EXCEPT !.meta = [k \in {"rate_limit"} |-> r.meta]]
            IN /\ now' = t
               /\ _buckets' = r.buckets
               /\ rlHist' = Append(rlHist, [key |-> key, now |-> t, ok |-> r.ok])
               /\ IF ~r.ok
                  THEN LET decision ==
                             Decision(FALSE, Reason("Rate limit exceeded", <<>>),
                                      policy.policy_id, Some("Wait and retry later."),
                                      "rate_limit")
                       IN /\ ctx' = [withMeta EXCEPT !.decision = Some(decision),
                                                     !.layer = "rate_limit"]
                          /\ flight' = PolicyDeniedError(decision)
                          /\ pc' = "raise"
                          /\ depth' = depth - 1
                  ELSE CallNext /\ ctx' = withMeta
  /\ UNCHANGED <<enforcer, nCalls, toolCalls, events, outcome, start, evalVars, limVars, auxVars>>

\* Mutant of AuthorizeLayer: the denying decision is stored but not raised.
AuthorizeLayerNoRaise ==
  /\ Entered("authorize")
  /\ LET decision == evaluate(policy, ctx.tool_call) IN
       /\ CallNext
       /\ ctx' = [ctx EXCEPT !.decision = Some(decision), !.layer = decision.layer]
  /\ UNCHANGED <<enforcer, _buckets, now, nCalls, toolCalls, events, outcome, start,
                 rlHist, evalVars, limVars, auxVars>>

\* layers/authorize.py: authorize_layer._layer.
AuthorizeLayer ==
  /\ Entered("authorize")
  /\ LET decision == evaluate(policy, ctx.tool_call) IN
     IF ~decision.allowed
     THEN Deny(decision)
     ELSE /\ CallNext
          /\ ctx' = [ctx EXCEPT !.decision = Some(decision), !.layer = decision.layer]
  /\ UNCHANGED <<enforcer, _buckets, now, nCalls, toolCalls, events, outcome, start,
                 rlHist, evalVars, limVars, auxVars>>

\* layers/detect_attacks.py: detect_attacks_layer._layer.
DetectAttacksLayer ==
  /\ Entered("detect_attacks")
  /\ LET cfg == policy.detect_attacks IN
     IF /\ IsSet(cfg)
        /\ cfg[1].enabled
        /\ Suspicious(ctx.tool_call.arguments, cfg[1].fields)
        /\ cfg[1].on_detect = "deny"
     THEN Deny(Decision(FALSE,
                        Reason("Potential injection/abuse pattern detected in arguments", <<>>),
                        policy.policy_id,
                        Some("Remove suspicious patterns from arguments."),
                        "detect_attacks"))
     ELSE CallNext /\ UNCHANGED ctx
  /\ UNCHANGED <<enforcer, _buckets, now, nCalls, toolCalls, events, outcome, start,
                 rlHist, evalVars, limVars, auxVars>>

\* layers/redact.py line 12: the layer calls nxt() first.
RedactLayer ==
  /\ Entered("redact")
  /\ CallNext
  /\ UNCHANGED <<enforcer, _buckets, now, nCalls, ctx, toolCalls, events, outcome,
                 start, rlHist, evalVars, limVars, auxVars>>

\* Mutant of RedactLayerReturn: the rewritten value is stored in ctx but the
\* original return value is returned.
RedactLayerReturnsOriginal ==
  /\ pc = "return"
  /\ depth >= 1
  /\ Chain[depth] = "redact"
  /\ LET cfg == policy.redact IN
     IF ~IsSet(cfg) \/ ~cfg[1].enabled
     THEN UNCHANGED <<ctx, flight>>
     ELSE /\ ctx' = [ctx EXCEPT !.tool_result =
                       redact_value(flight.value, cfg[1].deny_keys,
                                    cfg[1].pii_emails, cfg[1].max_string_len)]
          /\ UNCHANGED flight
  /\ depth' = depth - 1
  /\ UNCHANGED <<enforcer, _buckets, now, nCalls, pc, toolCalls, events, trace,
                 outcome, start, rlHist, evalVars, limVars, auxVars>>

\* Mutant of RedactLayerReturn: the value is rewritten whether or not the
\* config is enabled.
RedactLayerIgnoresEnabled ==
  /\ pc = "return"
  /\ depth >= 1
  /\ Chain[depth] = "redact"
  /\ LET cfg == policy.redact IN
     IF ~IsSet(cfg)
     THEN UNCHANGED <<ctx, flight>>
     ELSE LET redacted == redact_value(flight.value, cfg[1].deny_keys,
                                       cfg[1].pii_emails, cfg[1].max_string_len)
          IN /\ ctx' = [ctx EXCEPT !.tool_result = redacted]
             /\ flight' = Returned(redacted)
  /\ depth' = depth - 1
  /\ UNCHANGED <<enforcer, _buckets, now, nCalls, pc, toolCalls, events, trace,
                 outcome, start, rlHist, evalVars, limVars, auxVars>>

\* layers/redact.py lines 13-24: nxt() returned out.
RedactLayerReturn ==
  /\ pc = "return"
  /\ depth >= 1
  /\ Chain[depth] = "redact"
  /\ LET cfg == policy.redact IN
     IF ~IsSet(cfg) \/ ~cfg[1].enabled
     THEN UNCHANGED <<ctx, flight>>
     ELSE LET redacted == redact_value(flight.value, cfg[1].deny_keys,
                                       cfg[1].pii_emails, cfg[1].max_string_len)
          IN /\ ctx' = [ctx EXCEPT !.tool_result = redacted]
             /\ flight' = Returned(redacted)
  /\ depth' = depth - 1
  /\ UNCHANGED <<enforcer, _buckets, now, nCalls, pc, toolCalls, events, trace,
                 outcome, start, rlHist, evalVars, limVars, auxVars>>

\* layers/audit.py lines 12-13: the layer calls nxt() inside try.
AuditLayer ==
  /\ Entered("audit")
  /\ CallNext
  /\ UNCHANGED <<enforcer, _buckets, now, nCalls, ctx, toolCalls, events, outcome,
                 start, rlHist, evalVars, limVars, auxVars>>

\* if audit_logger and (cfg is None or cfg.enabled)
AuditOn ==
  /\ IsSet(enforcer.audit_logger)
  /\ ~IsSet(policy.audit) \/ policy.audit[1].enabled

\* The layer argument of audit_logger.log (audit.py lines 24 and 43).
AuditedLayer ==
  IF IsSet(ctx.decision) THEN Some(ctx.decision[1].layer)
  ELSE IF ctx.layer = NoLayer THEN Absent ELSE Some(ctx.layer)

\* layers/audit.py lines 14-31: nxt() returned out.
AuditLayerReturn ==
  /\ pc = "return"
  /\ depth >= 1
  /\ Chain[depth] = "audit"
  /\ IF AuditOn
     THEN events' =
            Append(events,
                   AuditEvent(enforcer.audit_logger[1], ctx.tool_call, "allow",
                              IF IsSet(ctx.decision) THEN ctx.decision[1].reason
                              ELSE Reason("Allowed", <<>>),
                              ctx.policy_id, AuditedLayer, flight.value,
                              IsSet(policy.audit) /\ policy.audit[1].include_result,
                              IsSet(policy.audit) /\ policy.audit[1].include_argument_values))
     ELSE UNCHANGED events
  /\ depth' = depth - 1
  /\ UNCHANGED <<enforcer, _buckets, now, nCalls, pc, ctx, flight, toolCalls, trace,
                 outcome, start, rlHist, evalVars, limVars, auxVars>>

\* Mutant of AuditLayerExcept: the handler tags every exception 'deny'.
AuditLayerExceptTagsDeny ==
  /\ pc = "raise"
  /\ depth >= 1
  /\ Chain[depth] = "audit"
  /\ flight.kind # "ToolExit"
  /\ IF AuditOn
     THEN events' =
            Append(events,
                   AuditEvent(enforcer.audit_logger[1], ctx.tool_call, "deny",
                              IF IsSet(ctx.decision) THEN ctx.decision[1].reason
                              ELSE Reason("<str(e)>", <<>>),
                              ctx.policy_id, AuditedLayer, None, FALSE,
                              IsSet(policy.audit) /\ policy.audit[1].include_argument_values))
     ELSE UNCHANGED events
  /\ depth' = depth - 1
  /\ UNCHANGED <<enforcer, _buckets, now, nCalls, pc, ctx, flight, toolCalls, trace,
                 outcome, start, rlHist, evalVars, limVars, auxVars>>

\* layers/audit.py lines 32-50: nxt() raised an Exception; the event is
\* written and the exception raised again.
AuditLayerExcept ==
  /\ pc = "raise"
  /\ depth >= 1
  /\ Chain[depth] = "audit"
  /\ flight.kind # "ToolExit"
  /\ IF AuditOn
     THEN events' =
            Append(events,
                   AuditEvent(enforcer.audit_logger[1], ctx.tool_call,
                              IF IsSet(ctx.decision) /\ ~ctx.decision[1].allowed
                              THEN "deny" ELSE "error",
                              IF IsSet(ctx.decision) THEN ctx.decision[1].reason
                              ELSE Reason("<str(e)>", <<>>),
                              ctx.policy_id, AuditedLayer, None, FALSE,
                              IsSet(policy.audit) /\ policy.audit[1].include_argument_values))
     ELSE UNCHANGED events
  /\ depth' = depth - 1
  /\ UNCHANGED <<enforcer, _buckets, now, nCalls, pc, ctx, flight, toolCalls, trace,
                 outcome, start, rlHist, evalVars, limVars, auxVars>>

\* pipeline.py lines 23-24: forward() calls tool_fn, which returns a value
\* or raises.
Forward ==
  /\ Entered("forward")
  /\ toolCalls' = toolCalls + 1
  /\ \/ \E value \in ToolResults : flight' = Returned(value) /\ pc' = "return"
     \/ flight' = ToolError /\ pc' = "raise"
     \/ flight' = ToolExit /\ pc' = "raise"
  /\ depth' = depth - 1
  /\ UNCHANGED <<enforcer, _buckets, now, nCalls, ctx, events, outcome, start,
                 rlHist, evalVars, limVars, auxVars>>

\* "return nxt()" of validate, rate_limit, authorize and detect_attacks: the
\* value goes to the layer's own caller.
ReturnThrough ==
  /\ pc = "return"
  /\ depth >= 1
  /\ Chain[depth] \in {"validate", "rate_limit", "authorize", "detect_attacks"}
  /\ depth' = depth - 1
  /\ UNCHANGED <<enforcer, _buckets, now, nCalls, pc, ctx, flight, toolCalls, events,
                 trace, outcome, start, rlHist, evalVars, limVars, auxVars>>

\* A layer with no handler around nxt(), or the audit layer when the exception
\* is not an Exception: the exception goes to the layer's caller.
RaiseThrough ==
  /\ pc = "raise"
  /\ depth >= 1
  /\ \/ Chain[depth] \in {"validate", "rate_limit", "authorize", "detect_attacks", "redact"}
     \/ Chain[depth] = "audit" /\ flight.kind = "ToolExit"
  /\ depth' = depth - 1
  /\ UNCHANGED <<enforcer, _buckets, now, nCalls, pc, ctx, flight, toolCalls, events,
                 trace, outcome, start, rlHist, evalVars, limVars, auxVars>>

\* pipeline.py line 35: execute returns the outermost callable's value to
\* its caller, or the exception reaches the caller.
Complete ==
  /\ pc \in {"return", "raise"}
  /\ depth = 0
  /\ outcome' = flight
  /\ pc' = "done"
  /\ UNCHANGED <<enforcer, _buckets, now, nCalls, depth, ctx, flight, toolCalls,
                 events, trace, start, rlHist, evalVars, limVars, auxVars>>

Next ==
  \/ Enforce
  \/ ValidateLayer
  \/ RateLimitLayer
  \/ AuthorizeLayer
  \/ DetectAttacksLayer
  \/ RedactLayer
  \/ RedactLayerReturn
  \/ AuditLayer
  \/ AuditLayerReturn
  \/ AuditLayerExcept
  \/ Forward
  \/ ReturnThrough
  \/ RaiseThrough
  \/ Complete

Spec == Init /\ [][Next]_vars

(***************************************************************************)
(* Properties of the pipeline (Spec).                                      *)
(***************************************************************************)
\* The checks of one invocation, stated on the invocation, the policy and
\* the bucket map the execute started from.
SizeCheckFails ==
  /\ IsSet(policy.validate_cfg)
  /\ policy.validate_cfg[1].max_arg_bytes > 0
  /\ arguments_size_bytes(ctx.tool_call.arguments) > policy.validate_cfg[1].max_arg_bytes

RateLimitActive ==
  /\ IsSet(policy.rate_limit)
  /\ policy.rate_limit[1].enabled
  /\ policy.rate_limit[1].limit_per_minute # 0

\* The limiter refuses the token at the clock reading of this execute.
TokenTakeFails ==
  /\ RateLimitActive
  /\ ~allow(start, _key(policy.rate_limit, ctx.tool_call),
            policy.rate_limit[1].limit_per_minute, policy.rate_limit[1].burst, now).ok

RuleEvaluationFails == ~evaluate(policy, ctx.tool_call).allowed

PatternScanFails ==
  /\ IsSet(policy.detect_attacks)
  /\ policy.detect_attacks[1].enabled
  /\ policy.detect_attacks[1].on_detect = "deny"
  /\ \E k \in DOMAIN ctx.tool_call.arguments :
       /\ k \in policy.detect_attacks[1].fields
       /\ ctx.tool_call.arguments[k].t = "str"
       /\ LET q == ctx.tool_call.arguments[k].v
          IN SQLI_RE(q) \/ TRAVERSAL_RE(q) \/ SSRF_RE(q)

\* The first check that fails, in the order validate, rate_limit, authorize,
\* detect_attacks; "none" when every check passes.
FirstFailing ==
  IF SizeCheckFails THEN "validate"
  ELSE IF TokenTakeFails THEN "rate_limit"
  ELSE IF RuleEvaluationFails THEN "authorize"
  ELSE IF PatternScanFails THEN "detect_attacks"
  ELSE "none"

PreInvocationOrder == <<"validate", "rate_limit", "authorize", "detect_attacks">>

\* The checks entered when check number n is the last one entered.
ChecksUpTo(n) == SubSeq(PreInvocationOrder, 1, n)

CheckNumber(name) == CHOOSE n \in DOMAIN PreInvocationOrder : PreInvocationOrder[n] = name

Denied == outcome.kind = "PolicyDeniedError"

\* C1: in every execute the tool function is called 0 times when a
\* pre-invocation layer (validate, rate_limit, authorize, detect_attacks)
\* denies and exactly once otherwise, and never more than once.
C1_AtMostOnceInvocation ==
  /\ toolCalls <= 1
  /\ pc = "done" => toolCalls = (IF FirstFailing # "none" THEN 0 ELSE 1)
  /\ pc = "done" => (Denied <=> FirstFailing # "none")

\* An execute that every earlier check passed and detect_attacks denied ended
\* without a call of the tool function.
C1_Witness ==
  /\ pc = "done"
  /\ FirstFailing = "detect_attacks"
  /\ Denied
  /\ toolCalls = 0

\* C2 (as claimed): with audit enabled and a sink bound, every execute ends
\* with exactly one audit event written, whose decision is allow, deny or
\* error, whatever the outcome.
C2_AuditCompleteness ==
  (pc = "done" /\ AuditOn)
    => /\ Len(events) = 1
       /\ events[1].decision \in {"allow", "deny", "error"}

\* What the code keeps of C2: an execute writes at most one event, and writes
\* one exactly when the tool function was called and returned or raised an
\* Exception.
C2_EventIffToolCalled ==
  /\ Len(events) <= 1
  /\ (pc = "done" /\ AuditOn)
       => Len(events) = (IF outcome.kind = "ToolExit" THEN 0 ELSE toolCalls)
  /\ \A i \in DOMAIN events : events[i].decision \in {"allow", "error"}

\* C3 (as claimed): a denial by validate, rate_limit, authorize or
\* detect_attacks is seen by the audit layer, which writes a 'deny' event
\* with the denying Decision's reason and layer tag before the
\* PolicyDeniedError reaches the caller.
C3_DenialsAudited ==
  (pc = "done" /\ AuditOn /\ Denied)
    => \E i \in DOMAIN events :
         /\ events[i].decision = "deny"
         /\ events[i].reason = outcome.decision[1].reason
         /\ events[i].layer = Some(outcome.decision[1].layer)

\* What tool_fn can raise.
Raised == {"ToolError", "ToolExit"}

\* An exception of the tool function on its way out is handed from layer to
\* layer unchanged until it reaches the caller of execute, and no layer
\* touches the context meanwhile (redact_value runs on nothing).
ToolExceptionPassesOn ==
  (pc = "raise" /\ flight.kind \in Raised)
    => /\ flight' = flight
       /\ ctx' = ctx
       /\ \/ pc' = "raise"
          \/ pc' = "done" /\ outcome' = flight

\* The execute ended with the exception the tool function raised: the tool
\* was called once and no value was redacted.
EndedRaising(kinds) ==
  /\ pc = "done"
  /\ outcome.kind \in kinds
  /\ toolCalls = 1

OneErrorEvent == Len(events) = 1 /\ events[1].decision = "error"

TraceIsChainPrefix == trace = SubSeq(Chain, 1, Len(trace))

\* C4 (as claimed): the checks run in the order validate, rate_limit,
\* authorize, detect_attacks, then the tool; the PolicyDeniedError carries
\* the layer tag of the first failing check and no later check is run.
C4_FirstFailingTag ==
  (pc = "done" /\ FirstFailing # "none")
    => /\ Denied
       /\ outcome.decision[1].layer = FirstFailing
       /\ trace = ChecksUpTo(CheckNumber(FirstFailing))

\* C4 (amended): as claimed, except that the Decision carried when authorize
\* is the first failing check is the engine's, whose layer tag is 'validate'
\* for a role, constraint or unknown-argument denial and 'authorize'
\* otherwise.
C4_FirstFailingCheckDecides ==
  /\ TraceIsChainPrefix
  /\ (pc = "done" /\ FirstFailing = "none") => "forward" = trace[Len(trace)]
  /\ (pc = "done" /\ FirstFailing # "none")
       => /\ Denied
          /\ trace = ChecksUpTo(CheckNumber(FirstFailing))
          /\ IF FirstFailing = "authorize"
             THEN /\ outcome.decision[1] = evaluate(policy, ctx.tool_call)
                  /\ outcome.decision[1].layer \in {"authorize", "validate"}
             ELSE outcome.decision[1].layer = FirstFailing

\* An invocation that fails the rule evaluation and the pattern scan: the
\* engine's Decision (tag 'validate') is carried and detect_attacks is not
\* entered.
C4_Witness ==
  /\ pc = "done"
  /\ ~SizeCheckFails
  /\ RateLimitActive
  /\ RuleEvaluationFails
  /\ PatternScanFails
  /\ Denied
  /\ outcome.decision[1].layer = "validate"
  /\ trace = <<"validate", "rate_limit", "authorize">>

\* The value the caller receives for a tool return value.
Redacted(value) ==
  IF IsSet(policy.redact) /\ policy.redact[1].enabled
  THEN redact_value(value, policy.redact[1].deny_keys, policy.redact[1].pii_emails,
                    policy.redact[1].max_string_len)
  ELSE value

LayerTags == {"validate", "rate_limit", "authorize", "detect_attacks"}

\* C7: an execute in which no layer denied and the tool returned hands the
\* caller the tool result, redacted when redaction is enabled; an execute in
\* which a layer denied raises PolicyDeniedError carrying that layer's
\* Decision, which has allowed = FALSE and a layer tag among validate,
\* rate_limit, authorize, detect_attacks.
C7_OutcomeOfExecute ==
  pc = "done" =>
    /\ outcome.kind \in {"value", "PolicyDeniedError", "ToolError", "ToolExit"}
    /\ (FirstFailing = "none" /\ outcome.kind \notin {"ToolError", "ToolExit"})
         => /\ outcome.kind = "value"
            /\ \E value \in ToolResults : outcome.value = Redacted(value)
    /\ FirstFailing # "none"
         => /\ Denied
            /\ outcome.decision = ctx.decision
            /\ ~outcome.decision[1].allowed
            /\ outcome.decision[1].layer \in LayerTags

\* A tool result with a denied key and an e-mail address reached the caller
\* rewritten.
C7_Witness ==
  /\ pc = "done"
  /\ outcome.kind = "value"
  /\ outcome.value \notin ToolResults
  /\ \E value \in ToolResults : value # None /\ outcome.value = Redacted(value)

\* A layer denied and the caller got its Decision.
C7_WitnessDenied ==
  /\ pc = "done"
  /\ Denied
  /\ outcome.decision[1].layer = "rate_limit"

\* ---- limiter calls of one key ----
\* The limiter calls on key, as indices into rlHist.
CallsOn(key) == {i \in DOMAIN rlHist : rlHist[i].key = key}

\* The first limiter call on key.
FirstCallOn(key) == CHOOSE f \in CallsOn(key) : \A g \in CallsOn(key) : f <= g

\* The call i on its key is immediate: up to call i, no call on the key read
\* a clock that differed from the one the key's first call read.
Immediate(i) ==
  \A j \in CallsOn(rlHist[i].key) :
    j <= i => rlHist[j].now = rlHist[FirstCallOn(rlHist[i].key)].now

\* The number of the call i among the calls on its key.
Rank(i) == Cardinality({j \in CallsOn(rlHist[i].key) : j <= i})

\* The capacity as the specification states it.
ClaimedCapacity ==
  Max(1, IF policy.rate_limit[1].burst > 0 THEN policy.rate_limit[1].burst
         ELSE policy.rate_limit[1].limit_per_minute)

\* C10 (as claimed): of the immediate invocations on a previously unseen
\* key, exactly the first c pass the limiter, c = max(1, burst if burst > 0
\* else limit_per_minute), and every later one is refused.
C10_FirstCapacityPass ==
  \A i \in DOMAIN rlHist :
    Immediate(i) => (rlHist[i].ok <=> Rank(i) <= ClaimedCapacity)

\* What the code does: the same with c = max(1, burst if burst != 0 else
\* limit_per_minute).
C10_FirstCodeCapacityPass ==
  \A i \in DOMAIN rlHist :
    Immediate(i) =>
      (rlHist[i].ok <=> Rank(i) <= Capacity(policy.rate_limit[1].limit_per_minute,
                                            policy.rate_limit[1].burst))

\* Scenario S4: burst 2, three immediate invocations of one actor.
C10_Witness ==
  /\ Len(rlHist) = 3
  /\ policy.rate_limit[1].burst = 2
  /\ \A i \in DOMAIN rlHist : Immediate(i) /\ rlHist[i].key = rlHist[1].key
  /\ rlHist[1].ok /\ rlHist[2].ok /\ ~rlHist[3].ok

(***************************************************************************)
(* SpecEval: PolicyEngine.evaluate on bounded inputs.                      *)
(***************************************************************************)
InitEval ==
  /\ evalPolicy \in EvalPolicies
  /\ evalCall \in EvalToolCalls
  /\ evalDecision = Absent
  /\ PipeIdle
  /\ LimIdle
  /\ AuxIdle

Evaluate ==
  /\ evalDecision = Absent
  /\ evalDecision' = Some(evaluate(evalPolicy, evalCall))
  /\ UNCHANGED <<evalPolicy, evalCall, pipeVars, limVars, auxVars>>

NextEval == Evaluate

SpecEval == InitEval /\ [][NextEval]_vars

(***************************************************************************)
(* Properties of PolicyEngine.evaluate (SpecEval).                         *)
(***************************************************************************)
\* A deny rule matches an invocation: same tool name, and no condition or
\* every (k, v) of the condition has k among the arguments with arguments[k]
\* equal to v.
DenyRuleMatches(rule, tc) ==
  /\ rule.tool = tc.tool_name
  /\ \/ ~IsSet(rule.condition)
     \/ \A k \in DOMAIN rule.condition[1] :
          /\ k \in DOMAIN tc.arguments
          /\ PyEq(tc.arguments[k], rule.condition[1][k])

SomeDenyRuleMatches(pol, tc) ==
  \E i \in DOMAIN pol.deny_rules : DenyRuleMatches(pol.deny_rules[i], tc)

\* C5: deny precedence.  Whenever some deny rule of the policy matches the
\* invocation, evaluate returns allowed = FALSE, whatever the allow rules,
\* their roles and constraints, and whatever the policy default.
C5_DenyPrecedence ==
  (IsSet(evalDecision) /\ SomeDenyRuleMatches(evalPolicy, evalCall))
    => evalDecision[1].allowed = FALSE

\* A deny rule matches an invocation that an allow rule admits, under a
\* default of allow and with no size limit: the deny rule alone decides.
C5_Witness ==
  /\ IsSet(evalDecision)
  /\ SomeDenyRuleMatches(evalPolicy, evalCall)
  /\ evalPolicy.default = "allow"
  /\ ~IsSet(evalPolicy.validate_cfg)
  /\ \E i \in DOMAIN evalPolicy.allow_rules :
       /\ evalPolicy.allow_rules[i].tool = evalCall.tool_name
       /\ \A j \in 1..(i - 1) : evalPolicy.allow_rules[j].tool # evalCall.tool_name
       /\ ~IsSet(evalPolicy.allow_rules[i].roles)
       /\ \A n \in DOMAIN evalPolicy.allow_rules[i].constraints :
            evalPolicy.allow_rules[i].constraints[n].name \in DOMAIN evalCall.arguments
       /\ evalPolicy.allow_rules[i].constraints # <<>>
  /\ evalDecision[1].layer = "authorize"

\* The typed predicate of a constraint on a present value.
Satisfies(c, value) ==
  /\ value.t # "null"
  /\ c.type = "string" =>
       /\ value.t = "str"
       /\ IsSet(c.pattern) =>
            (c.pattern[1].kind = "class" /\ ReMatch(c.pattern[1], value.v))
       /\ IsSet(c.enum) => value \in c.enum[1]
  /\ c.type = "boolean" => value.t = "bool"
  /\ c.type = "integer" => value.t = "int"
  /\ c.type = "number" => value.t \in {"int", "float"}
  /\ c.type \in {"integer", "number"} =>
       /\ IsSet(c.min) => value.v >= c.min[1]
       /\ IsSet(c.max) => value.v <= c.max[1]

\* Every required constraint of the rule is present, and every present
\* argument the rule names satisfies its typed predicate.
ConstraintsHold(rule, arguments) ==
  \A i \in DOMAIN rule.constraints :
    LET name == rule.constraints[i].name
        c == rule.constraints[i].c
    IN /\ c.required => name \in DOMAIN arguments
       /\ name \in DOMAIN arguments => Satisfies(c, arguments[name])

\* The allow rules that are first, in declaration order, with the tool name.
FirstAllowRules(pol, tc) ==
  { pol.allow_rules[i] : i \in
      { j \in DOMAIN pol.allow_rules :
          /\ pol.allow_rules[j].tool = tc.tool_name
          /\ \A h \in 1..(j - 1) : pol.allow_rules[h].tool # tc.tool_name } }

SizeGatePasses(pol, tc) ==
  \/ ~IsSet(pol.validate_cfg)
  \/ pol.validate_cfg[1].max_arg_bytes = 0
  \/ arguments_size_bytes(tc.arguments) <= pol.validate_cfg[1].max_arg_bytes

\* C6: an allow with reason 'Matched allow rule' is returned only when the
\* matched rule's required constraints are all present and every present
\* constrained argument satisfies its typed predicate; when the allow step is
\* reached and the matched rule's constraints are violated, the decision is a
\* deny whose layer is 'validate'.
C6_ConstraintsOrValidateDeny ==
  IsSet(evalDecision) =>
    /\ (evalDecision[1].allowed /\ evalDecision[1].reason.msg = "Matched allow rule")
         => \E rule \in FirstAllowRules(evalPolicy, evalCall) :
              ConstraintsHold(rule, evalCall.arguments)
    /\ \A rule \in FirstAllowRules(evalPolicy, evalCall) :
         ( /\ SizeGatePasses(evalPolicy, evalCall)
           /\ ~IsSet(_match_deny(evalPolicy, evalCall))
           /\ ~ConstraintsHold(rule, evalCall.arguments) )
         => (~evalDecision[1].allowed /\ evalDecision[1].layer = "validate")

\* Both cases happen: an allow through a rule with a required, patterned
\* constraint that the arguments satisfy ...
C6_Witness ==
  /\ IsSet(evalDecision)
  /\ evalDecision[1].allowed
  /\ evalDecision[1].reason.msg = "Matched allow rule"
  /\ \E rule \in FirstAllowRules(evalPolicy, evalCall) :
       \E i \in DOMAIN rule.constraints :
         /\ rule.constraints[i].c.required
         /\ IsSet(rule.constraints[i].c.pattern)

\* ... and a violated constraint turned into a deny of layer 'validate'.
C6_WitnessDeny ==
  /\ IsSet(evalDecision)
  /\ ~evalDecision[1].allowed
  /\ evalDecision[1].layer = "validate"
  /\ evalDecision[1].reason.msg = "Missing required argument: <name>"
  /\ \E rule \in FirstAllowRules(evalPolicy, evalCall) :
       /\ ~ConstraintsHold(rule, evalCall.arguments)
       /\ ~IsSet(rule.roles)

\* C13 (as claimed): a deny rule fires in _match_deny exactly when it matches
\* as specified: same tool name, and no condition or every key of the
\* condition present in the arguments with an equal value; a key missing
\* from the arguments is a mismatch even for an expected null.
C13_DenyRuleFiresIffMatches ==
  IsSet(evalDecision) =>
    \A i \in DOMAIN evalPolicy.deny_rules :
      DenyRuleFires(evalPolicy.deny_rules[i], evalCall)
        <=> DenyRuleMatches(evalPolicy.deny_rules[i], evalCall)

\* What the code keeps of C13: a rule that matches fires, and a rule that
\* fires without matching has a null in its condition under a key that the
\* arguments lack.
C13_FiresWithoutMatchOnlyOnNull ==
  IsSet(evalDecision) =>
    \A i \in DOMAIN evalPolicy.deny_rules :
      LET rule == evalPolicy.deny_rules[i] IN
      /\ DenyRuleMatches(rule, evalCall) => DenyRuleFires(rule, evalCall)
      /\ (DenyRuleFires(rule, evalCall) /\ ~DenyRuleMatches(rule, evalCall))
           => \E k \in DOMAIN rule.condition[1] :
                k \notin DOMAIN evalCall.arguments /\ rule.condition[1][k] = None

\* The deny rules that match the invocation, by their place in the policy.
MatchingDenyRules(pol, tc) ==
  { i \in DOMAIN pol.deny_rules : DenyRuleMatches(pol.deny_rules[i], tc) }

FiringDenyRules(pol, tc) ==
  { i \in DOMAIN pol.deny_rules : DenyRuleFires(pol.deny_rules[i], tc) }

Least(S) == CHOOSE i \in S : \A j \in S : i <= j

\* The policy with its deny rules i and j in each other's place.
SwapDenyRules(pol, i, j) ==
  [pol EXCEPT !.deny_rules =
     [n \in DOMAIN pol.deny_rules |->
        IF n = i THEN pol.deny_rules[j]
        ELSE IF n = j THEN pol.deny_rules[i] ELSE pol.deny_rules[n]]]

\* Swapping two deny rules taken from `rules` leaves allowed as it was.
SwapKeepsOutcome(rules) ==
  \A i, j \in rules :
    evaluate(SwapDenyRules(evalPolicy, i, j), evalCall).allowed = evalDecision[1].allowed

\* C14 (as claimed): when the size gate passes and some deny rule matches,
\* evaluate returns a deny of layer 'authorize' with the reason of the first
\* deny rule, in declaration order, that matches; swapping two deny rules
\* that both match leaves the outcome a deny.
C14_FirstMatchingRuleReason ==
  ( /\ IsSet(evalDecision)
    /\ SizeGatePasses(evalPolicy, evalCall)
    /\ MatchingDenyRules(evalPolicy, evalCall) # {} )
  => /\ ~evalDecision[1].allowed
     /\ evalDecision[1].layer = "authorize"
     /\ evalDecision[1].reason.msg =
          evalPolicy.deny_rules[Least(MatchingDenyRules(evalPolicy, evalCall))].reason
     /\ SwapKeepsOutcome(MatchingDenyRules(evalPolicy, evalCall))

\* What the code keeps of C14: the same with the rules that fire in
\* _match_deny in place of the rules that match as specified.
C14_FirstFiringRuleReason ==
  ( /\ IsSet(evalDecision)
    /\ SizeGatePasses(evalPolicy, evalCall)
    /\ FiringDenyRules(evalPolicy, evalCall) # {} )
  => /\ ~evalDecision[1].allowed
     /\ evalDecision[1].layer = "authorize"
     /\ evalDecision[1].reason.msg =
          evalPolicy.deny_rules[Least(FiringDenyRules(evalPolicy, evalCall))].reason
     /\ SwapKeepsOutcome(FiringDenyRules(evalPolicy, evalCall))

\* The Decision of the policy default.
IsDefaultDecision(decision, pol) ==
  /\ decision.layer = "authorize"
  /\ decision.allowed = (pol.default = "allow")
  /\ decision.reason.msg = (IF pol.default = "allow"
                            THEN "No matching rule; default allow"
                            ELSE "No matching rule; default deny")

NoAllowRuleNamesTool(pol, tc) ==
  \A i \in DOMAIN pol.allow_rules : pol.allow_rules[i].tool # tc.tool_name

\* C15 (as claimed): when the size gate passes, no deny rule matches and no
\* allow rule has the invocation's tool name, evaluate returns the policy
\* default with layer 'authorize'.
C15_DefaultWhenNothingMatches ==
  ( /\ IsSet(evalDecision)
    /\ SizeGatePasses(evalPolicy, evalCall)
    /\ MatchingDenyRules(evalPolicy, evalCall) = {}
    /\ NoAllowRuleNamesTool(evalPolicy, evalCall) )
  => IsDefaultDecision(evalDecision[1], evalPolicy)

\* What the code keeps of C15: the default is returned when no deny rule
\* fires in _match_deny.
C15_DefaultWhenNothingFires ==
  ( /\ IsSet(evalDecision)
    /\ SizeGatePasses(evalPolicy, evalCall)
    /\ FiringDenyRules(evalPolicy, evalCall) = {}
    /\ NoAllowRuleNamesTool(evalPolicy, evalCall) )
  => IsDefaultDecision(evalDecision[1], evalPolicy)

\* Place of a key in the lexicographic order of the argument names.
KeyRank(k) == CHOOSE n \in DOMAIN SortedKeys : SortedKeys[n] = k

\* seq lists exactly the members of S, each once, in lexicographic order.
ListsSorted(seq, S) ==
  /\ {seq[n] : n \in DOMAIN seq} = S
  /\ \A m, n \in DOMAIN seq : m < n => KeyRank(seq[m]) < KeyRank(seq[n])

\* evaluate reached the unknown-argument step: the size gate passed, no deny
\* rule fired, and the first allow rule with the tool name admitted the caller's
\* roles and found its constraints satisfied.
UnknownStepReached(rule) ==
  /\ IsSet(evalDecision)
  /\ SizeGatePasses(evalPolicy, evalCall)
  /\ ~IsSet(_match_deny(evalPolicy, evalCall))
  /\ rule \in FirstAllowRules(evalPolicy, evalCall)
  /\ IsSet(rule.roles) => rule.roles[1] \cap evalCall.roles # {}
  /\ ConstraintsHold(rule, evalCall.arguments)

RejectUnknownArgs(pol) ==
  IsSet(pol.validate_cfg) /\ pol.validate_cfg[1].reject_unknown_args

\* C16: with reject_unknown_args set and the matched allow rule's
\* constraints satisfied, evaluate denies with layer 'validate' exactly when
\* some argument key is not a constraint key of the rule, and the reason then
\* lists the extra keys, each once, in lexicographic order; otherwise it
\* allows with layer 'authorize'.
C16_UnknownArgsRejected ==
  \A rule \in FirstAllowRules(evalPolicy, evalCall) :
    (UnknownStepReached(rule) /\ RejectUnknownArgs(evalPolicy)) =>
      LET extras == DOMAIN evalCall.arguments \ ConstraintNames(rule.constraints)
      IN IF extras # {}
         THEN /\ ~evalDecision[1].allowed
              /\ evalDecision[1].layer = "validate"
              /\ evalDecision[1].reason.msg = "Unknown arguments not allowed: <sorted>"
              /\ ListsSorted(evalDecision[1].reason.arg, extras)
         ELSE /\ evalDecision[1].allowed
              /\ evalDecision[1].layer = "authorize"

\* Two arguments outside the matched rule's constraints are rejected and
\* listed.
C16_Witness ==
  \E rule \in FirstAllowRules(evalPolicy, evalCall) :
    /\ UnknownStepReached(rule)
    /\ RejectUnknownArgs(evalPolicy)
    /\ Cardinality(DOMAIN evalCall.arguments \ ConstraintNames(rule.constraints)) >= 2
    /\ ~evalDecision[1].allowed
    /\ Len(evalDecision[1].reason.arg) >= 2

\* ---------------------------------------------------------------------------
\* SpecLimiter: threads call one InMemoryRateLimiter concurrently.  The code
\* takes no lock, so each read and each write of a shared attribute or of the
\* bucket dictionary is a step of its own and the threads interleave freely.
\* ---------------------------------------------------------------------------

InitLimiter ==
  /\ limCfg \in LimiterConfigs
  /\ limTokens0 \in { Tenths(k) : k \in 0..Capacity(limCfg.limit_per_minute, limCfg.burst) }
  /\ LimStart
  /\ EvalIdle
  /\ PipeIdle
  /\ AuxIdle

Step(t, from, to) ==
  /\ thread[t].pc = from
  /\ thread' = [thread EXCEPT ![t].pc = to]

\* time.time() moves on between two steps of the threads.
LimTick ==
  /\ limClock < LimMaxTime
  /\ limClock' = limClock + 1
  /\ UNCHANGED <<limBuckets, limHeap, limCfg, limTokens0, thread, evalVars, pipeVars, auxVars>>

\* A thread enters allow(key, limit_per_minute, burst).
AllowCall(t) ==
  /\ thread[t].pc = "idle"
  /\ \E key \in {ExistingKey, UnseenKey} :
       thread' = [thread EXCEPT ![t].pc = "get", ![t].key = key]
  /\ UNCHANGED <<limBuckets, limHeap, limClock, limCfg, limTokens0, evalVars, pipeVars, auxVars>>

\* b = self._buckets.get(key); if b is None
AllowGet(t) ==
  /\ thread[t].pc = "get"
  /\ LET b == limBuckets[thread[t].key]
     IN thread' = [thread EXCEPT ![t].b = b,
                                 ![t].pc = IF b = 0 THEN "create" ELSE "take"]
  /\ UNCHANGED <<limBuckets, limHeap, limClock, limCfg, limTokens0, evalVars, pipeVars, auxVars>>

\* b = TokenBucket(capacity=cap, refill_per_sec=refill, tokens=float(cap),
\*                 last_ts=time.time())
AllowCreate(t) ==
  /\ thread[t].pc = "create"
  /\ LET cap == Capacity(limCfg.limit_per_minute, limCfg.burst)
     IN limHeap' = Append(limHeap,
                      TokenBucket(cap, RefillPerSec(limCfg.limit_per_minute),
                                  Tenths(cap), limClock))
  /\ thread' = [thread EXCEPT ![t].b = Len(limHeap) + 1, ![t].pc = "insert"]
  /\ UNCHANGED <<limBuckets, limClock, limCfg, limTokens0, evalVars, pipeVars, auxVars>>

\* self._buckets[key] = b
AllowInsert(t) ==
  /\ Step(t, "insert", "take")
  /\ limBuckets' = [limBuckets EXCEPT ![thread[t].key] = thread[t].b]
  /\ UNCHANGED <<limHeap, limClock, limCfg, limTokens0, evalVars, pipeVars, auxVars>>

\* now = time.time()
TakeNow(t) ==
  /\ thread[t].pc = "take"
  /\ thread' = [thread EXCEPT ![t].now = limClock, ![t].pc = "elapsed"]
  /\ UNCHANGED <<limBuckets, limHeap, limClock, limCfg, limTokens0, evalVars, pipeVars, auxVars>>

\* elapsed = max(0.0, now - self.last_ts)
TakeElapsed(t) ==
  /\ thread[t].pc = "elapsed"
  /\ thread' = [thread EXCEPT
                  ![t].elapsed = Max(0, thread[t].now - limHeap[thread[t].b].last_ts),
                  ![t].pc = "set_last_ts"]
  /\ UNCHANGED <<limBuckets, limHeap, limClock, limCfg, limTokens0, evalVars, pipeVars, auxVars>>

\* self.last_ts = now
TakeSetLastTs(t) ==
  /\ Step(t, "set_last_ts", "refill")
  /\ limHeap' = [limHeap EXCEPT ![thread[t].b].last_ts = thread[t].now]
  /\ UNCHANGED <<limBuckets, limClock, limCfg, limTokens0, evalVars, pipeVars, auxVars>>

\* min(self.capacity, self.tokens + elapsed * self.refill_per_sec): the right
\* hand side of the refill
TakeRefill(t) ==
  /\ thread[t].pc = "refill"
  /\ LET b == limHeap[thread[t].b]
     IN thread' = [thread EXCEPT
                     ![t].refilled = Min(Tenths(b.capacity),
                                         b.tokens + thread[t].elapsed * b.refill_per_sec),
                     ![t].pc = "store_refill"]
  /\ UNCHANGED <<limBuckets, limHeap, limClock, limCfg, limTokens0, evalVars, pipeVars, auxVars>>

\* self.tokens = <the refilled balance>
TakeStoreRefill(t) ==
  /\ Step(t, "store_refill", "test")
  /\ limHeap' = [limHeap EXCEPT ![thread[t].b].tokens = thread[t].refilled]
  /\ UNCHANGED <<limBuckets, limClock, limCfg, limTokens0, evalVars, pipeVars, auxVars>>

\* if self.tokens >= n
TakeTest(t) ==
  /\ thread[t].pc = "test"
  /\ thread' = [thread EXCEPT
                  ![t].pc = IF limHeap[thread[t].b].tokens >= Tenths(1)
                            THEN "load" ELSE "refuse"]
  /\ UNCHANGED <<limBuckets, limHeap, limClock, limCfg, limTokens0, evalVars, pipeVars, auxVars>>

\* self.tokens -= n reads the balance ...
TakeLoad(t) ==
  /\ thread[t].pc = "load"
  /\ thread' = [thread EXCEPT ![t].loaded = limHeap[thread[t].b].tokens,
                               ![t].pc = "store"]
  /\ UNCHANGED <<limBuckets, limHeap, limClock, limCfg, limTokens0, evalVars, pipeVars, auxVars>>

\* ... and writes it back one token lower
TakeStore(t) ==
  /\ Step(t, "store", "admit")
  /\ limHeap' = [limHeap EXCEPT ![thread[t].b].tokens = thread[t].loaded - Tenths(1)]
  /\ UNCHANGED <<limBuckets, limClock, limCfg, limTokens0, evalVars, pipeVars, auxVars>>

\* int(self.tokens) truncates toward zero.
IntOfTenths(x) ==
  IF x >= 0 THEN x \div 10 ELSE -((-x) \div 10)

\* return True, int(self.tokens)
TakeAdmit(t) ==
  /\ thread[t].pc = "admit"
  /\ thread' = [thread EXCEPT
                  ![t].ok = TRUE,
                  ![t].remaining = Max(0, IntOfTenths(limHeap[thread[t].b].tokens)),
                  ![t].pc = "done"]
  /\ UNCHANGED <<limBuckets, limHeap, limClock, limCfg, limTokens0, evalVars, pipeVars, auxVars>>

\* return False, int(self.tokens)
TakeRefuse(t) ==
  /\ thread[t].pc = "refuse"
  /\ thread' = [thread EXCEPT
                  ![t].ok = FALSE,
                  ![t].remaining = Max(0, IntOfTenths(limHeap[thread[t].b].tokens)),
                  ![t].pc = "done"]
  /\ UNCHANGED <<limBuckets, limHeap, limClock, limCfg, limTokens0, evalVars, pipeVars, auxVars>>

NextLimiter ==
  \/ LimTick
  \/ \E t \in Threads :
       \/ AllowCall(t)
       \/ AllowGet(t)
       \/ AllowCreate(t)
       \/ AllowInsert(t)
       \/ TakeNow(t)
       \/ TakeElapsed(t)
       \/ TakeSetLastTs(t)
       \/ TakeRefill(t)
       \/ TakeStoreRefill(t)
       \/ TakeTest(t)
       \/ TakeLoad(t)
       \/ TakeStore(t)
       \/ TakeAdmit(t)
       \/ TakeRefuse(t)

SpecLimiter == InitLimiter /\ [][NextLimiter]_vars

\* ---------------------------------------------------------------------------
\* Properties of the concurrent limiter
\* ---------------------------------------------------------------------------

AllDone == \A t \in Threads : thread[t].pc = "done"

CallersOf(key) == { t \in Threads : thread[t].key = key }

Admitted(key) == { t \in CallersOf(key) : thread[t].ok }

\* Every clock reading was the same, so no call refilled anything.
NoRefill == limClock = 0

\* C8: concurrent calls on the key of an existing bucket behave as if they
\* ran one after the other: without refill, of n calls on a bucket holding k
\* whole tokens exactly min(n, k) are admitted and the bucket ends k minus
\* that many tokens.
C8_TakeSerialized ==
  (AllDone /\ NoRefill) =>
    LET k == limTokens0 \div 10
        n == Cardinality(CallersOf(ExistingKey))
    IN /\ Cardinality(Admitted(ExistingKey)) = Min(n, k)
       /\ limHeap[limBuckets[ExistingKey]].tokens = limTokens0 - Tenths(Min(n, k))

\* C9: concurrent first calls on a key without a bucket all take from the one
\* bucket the dictionary ends up holding, so at most capacity of them are
\* admitted and the bucket accounts for every admitted call.
C9_OneBucketPerNewKey ==
  (AllDone /\ NoRefill /\ CallersOf(UnseenKey) # {}) =>
    LET cap == Capacity(limCfg.limit_per_minute, limCfg.burst)
        shared == limBuckets[UnseenKey]
    IN /\ \A t \in CallersOf(UnseenKey) : thread[t].b = shared
       /\ Cardinality(Admitted(UnseenKey)) <= cap
       /\ limHeap[shared].tokens = Tenths(cap) - Tenths(Cardinality(Admitted(UnseenKey)))

\* ---------------------------------------------------------------------------
\* SpecRate: one InMemoryRateLimiter called by one caller, one allow after
\* another, while the clock moves forward in whole seconds.
\* ---------------------------------------------------------------------------

\* Last value of the clock.
RateMaxTime == 11

\* Calls of allow in one run.
RateMaxCalls == 4

\* limit_per_minute 6 refills a tenth of a token per second, 12 two tenths.
RateConfigs ==
  { [limit_per_minute |-> 6, burst |-> 1], [limit_per_minute |-> 6, burst |-> 2],
    [limit_per_minute |-> 12, burst |-> 1] }

RateKeys == {"actor:a", "tool:echo"}

InitRate ==
  /\ rateCfg \in RateConfigs
  /\ rateBuckets = <<>>
  /\ rateNow = 0
  /\ rateHist = <<>>
  /\ EvalIdle
  /\ PipeIdle
  /\ LimIdle
  /\ DetIdle
  /\ RedIdle
  /\ ValIdle
  /\ CtxIdle

\* time.time() moves on between two calls.
RateTick ==
  /\ rateNow < RateMaxTime
  /\ rateNow' = rateNow + 1
  /\ UNCHANGED <<rateCfg, rateBuckets, rateHist, evalVars, pipeVars, limVars, detVars, redVars, valVars, ctxVars>>

\* limiter.allow(key, limit_per_minute, burst)
RateAllow ==
  /\ Len(rateHist) < RateMaxCalls
  /\ \E key \in RateKeys :
       LET r == allow(rateBuckets, key, rateCfg.limit_per_minute, rateCfg.burst, rateNow)
       IN /\ rateBuckets' = r.buckets
          /\ rateHist' = Append(rateHist,
                            [key |-> key, t |-> rateNow, ok |-> r.ok,
                             tokens |-> r.buckets[key].tokens])
  /\ UNCHANGED <<rateCfg, rateNow, evalVars, pipeVars, limVars, detVars, redVars, valVars, ctxVars>>

NextRate == RateTick \/ RateAllow

SpecRate == InitRate /\ [][NextRate]_vars

\* ---------------------------------------------------------------------------
\* Properties of the limiter called sequentially
\* ---------------------------------------------------------------------------

\* Tenths of a token refilled per second under the configuration in use.
RateOfRun == RefillPerSec(rateCfg.limit_per_minute)

\* Call j comes after the refused call i on the same key.
AfterRefusal(i, j) ==
  /\ i \in DOMAIN rateHist
  /\ j \in DOMAIN rateHist
  /\ i < j
  /\ rateHist[i].key = rateHist[j].key
  /\ ~rateHist[i].ok

\* C11 (as claimed): after allow returned false at time t, every later allow
\* on the key at a time t' < t + 1/rate returns false.
C11_RefusedForOnePeriod ==
  \A i, j \in DOMAIN rateHist :
    (AfterRefusal(i, j) /\ (rateHist[j].t - rateHist[i].t) * RateOfRun < Tenths(1))
      => ~rateHist[j].ok

\* C11 (amended): after allow returned false at time t leaving a balance b,
\* every later allow on the key at a time t' with b + (t' - t) * rate < 1
\* returns false: a token is only ever made of elapsed time.
C11_NoTokenManufacture ==
  \A i, j \in DOMAIN rateHist :
    (AfterRefusal(i, j)
       /\ rateHist[i].tokens + (rateHist[j].t - rateHist[i].t) * RateOfRun < Tenths(1))
      => ~rateHist[j].ok

\* A refusal that left part of a token, and a later call on the key, after
\* time has passed but before the balance reaches a token, refused as well.
C11_Witness ==
  \E i, j \in DOMAIN rateHist :
    /\ AfterRefusal(i, j)
    /\ rateHist[i].tokens > 0
    /\ rateHist[j].t > rateHist[i].t
    /\ rateHist[i].tokens + (rateHist[j].t - rateHist[i].t) * RateOfRun < Tenths(1)
    /\ ~rateHist[j].ok

(***************************************************************************)
(* SpecDetect: detect_attacks_layer applied once to one invocation, with   *)
(* arguments nested in mappings and lists.  nxt is the rest of the chain.  *)
(***************************************************************************)
Traversal == <<".", ".", "/">>

TraversalBackslash == <<".", ".", "\\">>

Localhost == <<"l", "o", "c", "a", "l", "h", "o", "s", "t">>

Loopback == <<"1", "2", "7", ".", "0", ".", "0", ".", "1">>

\* No keyword of SQLI_RE stands between word boundaries in it.
Dropship == <<"d", "r", "o", "p", "s", "h", "i", "p">>

DetectConfigs ==
  {Absent} \cup
  { Some(DetectAttacksConfig(enabled, on_detect, fields)) :
      enabled \in BOOLEAN, on_detect \in {"deny", "allow"},
      fields \in {{}, {"query"}, {"query", "sql", "where", "url", "path"}} }

DetectArguments ==
  { <<>>,
    [k \in {"query"} |-> PyStr(Hi)],
    [k \in {"query"} |-> PyStr(DropTable)],
    [k \in {"query"} |-> PyStr(Dropship)],
    [k \in {"query"} |-> PyInt(3)],
    [k \in {"msg"} |-> PyStr(Traversal)],
    [k \in {"path"} |-> PyStr(TraversalBackslash)],
    [k \in {"opts"} |-> PyDict([j \in {"query"} |-> PyStr(Localhost)])],
    [k \in {"items"} |-> PyList(<<PyStr(Hi), PyDict([j \in {"query"} |-> PyStr(Traversal)])>>)],
    [k \in {"query"} |-> PyList(<<PyStr(Traversal)>>)],
    [k \in {"query"} |-> PyDict([j \in {"note"} |-> PyStr(DropTable)])],
    [k \in {"query", "a"} |->
       IF k = "query" THEN PyStr(Hi)
       ELSE PyList(<<PyList(<<PyDict([j \in {"b"} |->
                       PyDict([u \in {"url"} |-> PyStr(Loopback)])])>>)>>)] }

InitDetect ==
  /\ detCfg \in DetectConfigs
  /\ detArgs \in DetectArguments
  /\ detOut = Absent
  /\ EvalIdle
  /\ PipeIdle
  /\ LimIdle
  /\ RateIdle
  /\ RedIdle
  /\ ValIdle
  /\ CtxIdle

\* layers/detect_attacks.py: detect_attacks_layer._layer, called once; nxt
\* counts the calls of the rest of the chain.
DetectLayerCall ==
  /\ detOut = Absent
  /\ detOut' =
       IF /\ IsSet(detCfg)
          /\ detCfg[1].enabled
          /\ Suspicious(detArgs, detCfg[1].fields)
          /\ detCfg[1].on_detect = "deny"
       THEN Some([raised |-> TRUE, nxt |-> 0,
                  decision |-> Some(Decision(FALSE,
                     Reason("Potential injection/abuse pattern detected in arguments", <<>>),
                     "p1",
                     Some("Remove suspicious patterns from arguments."),
                     "detect_attacks"))])
       ELSE Some([raised |-> FALSE, nxt |-> 1, decision |-> Absent])
  /\ UNCHANGED <<detCfg, detArgs, evalVars, pipeVars, limVars, rateVars, redVars, valVars, ctxVars>>

NextDetect == DetectLayerCall

SpecDetect == InitDetect /\ [][NextDetect]_vars

\* Every value of the arguments: the value itself, the values of a mapping,
\* the elements of a list, and so on downwards.
RECURSIVE ValuesWithin(_)
ValuesWithin(obj) ==
  {obj} \cup
  CASE obj.t = "dict" -> UNION { ValuesWithin(obj.v[k]) : k \in DOMAIN obj.v }
    [] obj.t = "list" -> UNION { ValuesWithin(obj.v[i]) : i \in DOMAIN obj.v }
    [] OTHER -> {}

\* The strings that are the value of a key of the field set in some mapping
\* of the arguments.
StringsUnderFields(arguments, fields) ==
  { d.v[k].v : <<d, k>> \in
      { <<d, k>> \in ValuesWithin(PyDict(arguments)) \X fields :
          d.t = "dict" /\ k \in DOMAIN d.v /\ d.v[k].t = "str" } }

PatternHit(arguments, fields) ==
  \E h \in StringsUnderFields(arguments, fields) :
    SQLI_RE(h) \/ TRAVERSAL_RE(h) \/ SSRF_RE(h)

DetectEnabled == IsSet(detCfg) /\ detCfg[1].enabled

\* C17: with detect_attacks enabled the layer scans every string that is the
\* direct value of a key of the field set, at any depth of mappings and lists
\* in the arguments; when a scanned string matches a SQL-keyword, traversal
\* or SSRF pattern and on_detect is "deny" the layer raises a denial of layer
\* "detect_attacks" without calling the rest of the chain; in every other
\* case (on_detect "allow", config disabled or absent, nothing matching) it
\* calls the rest of the chain once and denies nothing.
C17_DetectScan ==
  IsSet(detOut) =>
    IF DetectEnabled /\ detCfg[1].on_detect = "deny"
       /\ PatternHit(detArgs, detCfg[1].fields)
    THEN /\ detOut[1].raised
         /\ detOut[1].nxt = 0
         /\ IsSet(detOut[1].decision)
         /\ ~detOut[1].decision[1].allowed
         /\ detOut[1].decision[1].layer = "detect_attacks"
    ELSE /\ ~detOut[1].raised
         /\ detOut[1].nxt = 1
         /\ detOut[1].decision = Absent

\* A denial for a string that sits below a list and a mapping, none of the
\* top-level arguments being a string under a key of the field set.
C17_Witness ==
  /\ IsSet(detOut)
  /\ detOut[1].raised
  /\ \E k \in DOMAIN detArgs : detArgs[k].t = "list"
  /\ \A k \in DOMAIN detArgs :
       ~(k \in detCfg[1].fields /\ detArgs[k].t = "str"
         /\ (SQLI_RE(detArgs[k].v) \/ TRAVERSAL_RE(detArgs[k].v) \/ SSRF_RE(detArgs[k].v)))

(***************************************************************************)
(* Spec: the value the redact layer hands back.                            *)
(***************************************************************************)
RedactEnabled == IsSet(policy.redact) /\ policy.redact[1].enabled

\* The keys masked under the policy's redact config.
MaskedKeys(value) ==
  LET dks == IF policy.redact[1].deny_keys = {} THEN DEFAULT_DENY_KEYS
             ELSE policy.redact[1].deny_keys
  IN { k \in DOMAIN value.v : \E dk \in dks : KeyLower(k) = KeyLower(dk) }

HasEmail(s) == \E i \in DOMAIN s : EmailEnd(s, i) > 0

\* C18: an execute that returns a value returns, with redact enabled, the
\* rewrite by redact_value of what the tool returned under the policy's redact
\* config (a mapping with the same keys, each denied key masked as
\* "[REDACTED]", and with pii_emails no e-mail address left in a string that
\* was not cut), and the rewrite is also what ctx.tool_result holds; with
\* redact disabled or absent it returns what the tool returned.
C18_RedactLayerOutcome ==
  (pc = "done" /\ outcome.kind = "value") =>
    IF RedactEnabled
    THEN \E value \in ToolResults :
           /\ outcome.value =
                redact_value(value, policy.redact[1].deny_keys,
                             policy.redact[1].pii_emails,
                             policy.redact[1].max_string_len)
           /\ ctx.tool_result = outcome.value
           /\ value.t = "dict" =>
                /\ outcome.value.t = "dict"
                /\ DOMAIN outcome.value.v = DOMAIN value.v
                /\ \A k \in MaskedKeys(value) : outcome.value.v[k] = PyStr(REDACTED)
                /\ \A k \in DOMAIN value.v \ MaskedKeys(value) :
                     (/\ policy.redact[1].pii_emails
                      /\ value.v[k].t = "str"
                      /\ Len(value.v[k].v) <= policy.redact[1].max_string_len)
                       => ~HasEmail(outcome.value.v[k].v)
    ELSE outcome.value \in ToolResults

\* The caller received a mapping whose token is masked and whose e-mail
\* address is replaced, in place of the mapping the tool returned.
C18_Witness ==
  /\ pc = "done"
  /\ outcome.kind = "value"
  /\ RedactEnabled
  /\ outcome.value.t = "dict"
  /\ outcome.value.v["token"] = PyStr(REDACTED)
  /\ outcome.value.v["note"] = PyStr(<<"m", "a", "i", "l", " ">> \o REDACTED_EMAIL)
  /\ toolCalls = 1

(***************************************************************************)
(* SpecRedact: redact_value applied to a value, and again to its result,   *)
(* under one set of arguments.                                             *)
(***************************************************************************)
Mail == <<"a", "@", "b", ".", "c", "o">>

MailMe == <<"m", "a", "i", "l", " ", "a", "@", "b", ".", "c", "o">>

TwoMails == <<"a", "@", "b", ".", "c", "o", " ", "c", "@", "d", ".", "e", "e">>

TenDigits == <<"0", "1", "2", "3", "4", "5", "6", "7", "8", "9">>

\* max_string_len: no limit, limits shorter than the strings and than
\* "[REDACTED_EMAIL]", and the schema's default.
RedactLens == {0, 4, 8, 2048}

RedactArgs ==
  [deny_keys : {{}, {"note"}}, pii_emails : BOOLEAN, max_string_len : RedactLens]

RedactValues ==
  { None, PyInt(3), PyBool(TRUE), PyObj,
    PyStr(Hi), PyStr(Mail), PyStr(MailMe), PyStr(TwoMails), PyStr(TenDigits),
    PyList(<<PyStr(Mail), PyInt(1)>>),
    PyTuple(<<PyStr(TenDigits), PyList(<<>>)>>),
    PyDict([k \in {"token", "note"} |->
              IF k = "token" THEN PyStr(<<"a", "b", "c">>) ELSE PyStr(MailMe)]),
    PyDict([k \in {"token", "n"} |->
              IF k = "token" THEN PyList(<<PyInt(1), PyInt(2)>>) ELSE PyInt(3)]),
    PyDict([k \in {"Token", "items"} |->
              IF k = "Token" THEN PyDict([j \in {"msg"} |-> PyStr(Hi)])
              ELSE PyTuple(<<PyDict([j \in {"PASSWORD"} |-> PyInt(1)]),
                             PyStr(TwoMails)>>)]),
    PyDict([k \in {"note"} |-> PyList(<<PyStr(Hi), PyTuple(<<PyStr(Mail)>>)>>)]) }

InitRedact ==
  /\ redCfg \in RedactArgs
  /\ redValue \in RedactValues
  /\ redOnce = Absent
  /\ redTwice = Absent
  /\ EvalIdle
  /\ PipeIdle
  /\ LimIdle
  /\ RateIdle
  /\ DetIdle
  /\ ValIdle
  /\ CtxIdle

\* redact_value(value, deny_keys=..., pii_emails=..., max_string_len=...)
RedactOnce ==
  /\ redOnce = Absent
  /\ redOnce' = Some(redact_value(redValue, redCfg.deny_keys, redCfg.pii_emails,
                                  redCfg.max_string_len))
  /\ UNCHANGED <<redCfg, redValue, redTwice, evalVars, pipeVars, limVars, rateVars,
                 detVars, valVars, ctxVars>>

\* redact_value applied to the value it returned, same arguments.
RedactAgain ==
  /\ IsSet(redOnce)
  /\ redTwice = Absent
  /\ redTwice' = Some(redact_value(redOnce[1], redCfg.deny_keys, redCfg.pii_emails,
                                   redCfg.max_string_len))
  /\ UNCHANGED <<redCfg, redValue, redOnce, evalVars, pipeVars, limVars, rateVars,
                 detVars, valVars, ctxVars>>

NextRedact == RedactOnce \/ RedactAgain

SpecRedact == InitRedact /\ [][NextRedact]_vars

\* The strings of a value, at any depth of lists, tuples and mappings.
RECURSIVE StringsOf(_)
StringsOf(value) ==
  CASE value.t = "str" -> {value.v}
    [] value.t \in {"list", "tuple", "dict"} ->
         UNION { StringsOf(value.v[i]) : i \in DOMAIN value.v }
    [] OTHER -> {}

Contains(s, word) ==
  \E i \in 1..(Len(s) - Len(word) + 1) : SubSeq(s, i, i + Len(word) - 1) = word

\* No string of the value that holds an e-mail marker is longer than
\* max_string_len.
MarkersFit(value) ==
  \/ redCfg.max_string_len = 0
  \/ \A s \in StringsOf(value) :
       Contains(s, REDACTED_EMAIL) => Len(s) <= redCfg.max_string_len

RECURSIVE Shape(_)
Shape(value) ==
  CASE value.t \in {"list", "tuple"} ->
         [kind |-> value.t, of |-> [i \in DOMAIN value.v |-> Shape(value.v[i])]]
    [] value.t = "dict" ->
         [kind |-> "dict", of |-> [k \in DOMAIN value.v |-> Shape(value.v[k])]]
    [] OTHER -> [kind |-> "leaf", of |-> <<>>]

\* The shape of a value in which every value under a denied key counts as one
\* leaf.
RECURSIVE ShapeOutsideDenied(_, _)
ShapeOutsideDenied(value, deny_keys) ==
  CASE value.t \in {"list", "tuple"} ->
         [kind |-> value.t,
          of |-> [i \in DOMAIN value.v |-> ShapeOutsideDenied(value.v[i], deny_keys)]]
    [] value.t = "dict" ->
         [kind |-> "dict",
          of |-> [k \in DOMAIN value.v |->
                    IF \E dk \in deny_keys : KeyLower(k) = KeyLower(dk)
                    THEN [kind |-> "leaf", of |-> <<>>]
                    ELSE ShapeOutsideDenied(value.v[k], deny_keys)]]
    [] OTHER -> [kind |-> "leaf", of |-> <<>>]

EffectiveDenyKeys ==
  IF redCfg.deny_keys = {} THEN DEFAULT_DENY_KEYS ELSE redCfg.deny_keys

RolesExclude(rule, tc) == IsSet(rule.roles) /\ rule.roles[1] \cap tc.roles = {}

\* C21: when the allow rules are reached (the size gate passes and no deny
\* rule fires) and the first allow rule, in declaration order, with the
\* invocation's tool name lists roles none of which is among the invocation's
\* roles, evaluate denies with reason 'Actor role not permitted for this
\* tool' and layer 'validate', whatever the later allow rules for the same
\* tool would admit.
C21_FirstAllowRuleDecidesRoles ==
  IsSet(evalDecision) =>
    \A rule \in FirstAllowRules(evalPolicy, evalCall) :
      ( /\ SizeGatePasses(evalPolicy, evalCall)
        /\ ~IsSet(_match_deny(evalPolicy, evalCall))
        /\ RolesExclude(rule, evalCall) )
      => /\ ~evalDecision[1].allowed
         /\ evalDecision[1].reason = Reason("Actor role not permitted for this tool", <<>>)
         /\ evalDecision[1].layer = "validate"

\* The first rule for the tool lists a role the caller lacks; a later rule
\* for the same tool lists a role the caller has and its constraints hold.
C21_Witness ==
  /\ IsSet(evalDecision)
  /\ evalDecision[1].reason.msg = "Actor role not permitted for this tool"
  /\ \E rule \in FirstAllowRules(evalPolicy, evalCall) : rule.roles # Some({})
  /\ \E i \in DOMAIN evalPolicy.allow_rules :
       LET later == evalPolicy.allow_rules[i] IN
       /\ later \notin FirstAllowRules(evalPolicy, evalCall)
       /\ later.tool = evalCall.tool_name
       /\ ~RolesExclude(later, evalCall)
       /\ later.constraints # <<>>
       /\ ConstraintsHold(later, evalCall.arguments)

\* The constraints of the rule, by position, whose required argument is
\* missing, and those whose present argument fails its typed predicate.
MissingRequired(rule, arguments) ==
  { i \in DOMAIN rule.constraints :
      rule.constraints[i].c.required /\ rule.constraints[i].name \notin DOMAIN arguments }

FailingTyped(rule, arguments) ==
  { i \in DOMAIN rule.constraints :
      /\ rule.constraints[i].name \in DOMAIN arguments
      /\ ~Satisfies(rule.constraints[i].c, arguments[rule.constraints[i].name]) }

\* The allow rule's constraints are validated: the size gate passes, no deny
\* rule fires and the rule's roles admit the caller.
ConstraintsReached(rule) ==
  /\ SizeGatePasses(evalPolicy, evalCall)
  /\ ~IsSet(_match_deny(evalPolicy, evalCall))
  /\ ~RolesExclude(rule, evalCall)

\* C22: constraint validation runs in two passes.  When some required
\* argument is missing, the error is 'Missing required argument' for the
\* first such constraint in the insertion order of the constraint mapping,
\* whatever the typed errors of the other arguments; when none is missing and
\* some present argument fails its typed predicate, the error is a typed
\* error naming the first such constraint in insertion order.
C22_TwoPassesFirstError ==
  IsSet(evalDecision) =>
    \A rule \in FirstAllowRules(evalPolicy, evalCall) :
      ConstraintsReached(rule) =>
        LET missing == MissingRequired(rule, evalCall.arguments)
            failing == FailingTyped(rule, evalCall.arguments)
        IN /\ missing # {} =>
                /\ ~evalDecision[1].allowed
                /\ evalDecision[1].reason =
                     Reason("Missing required argument: <name>",
                            <<rule.constraints[Least(missing)].name>>)
           /\ (missing = {} /\ failing # {}) =>
                /\ ~evalDecision[1].allowed
                /\ evalDecision[1].reason.msg # "Missing required argument: <name>"
                /\ evalDecision[1].reason.arg =
                     <<rule.constraints[Least(failing)].name>>

\* A required argument is missing while an argument earlier in the mapping
\* has a typed error, and the missing one is reported.
C22_Witness ==
  /\ IsSet(evalDecision)
  /\ evalDecision[1].reason.msg = "Missing required argument: <name>"
  /\ \E rule \in FirstAllowRules(evalPolicy, evalCall) :
       /\ ConstraintsReached(rule)
       /\ \E i \in MissingRequired(rule, evalCall.arguments) :
            \E j \in FailingTyped(rule, evalCall.arguments) : j < i

\* Two present arguments fail, and the first in insertion order, which is
\* not the first in alphabetical order, is reported.
C22_WitnessTyped ==
  /\ IsSet(evalDecision)
  /\ \E rule \in FirstAllowRules(evalPolicy, evalCall) :
       /\ ConstraintsReached(rule)
       /\ MissingRequired(rule, evalCall.arguments) = {}
       /\ Cardinality(FailingTyped(rule, evalCall.arguments)) = 2
       /\ evalDecision[1].reason.arg = <<"n">>
       /\ rule.constraints[2].name = "msg"

(***************************************************************************)
(* SpecValidate: validate_layer applied once to one invocation.  nxt is    *)
(* the rest of the chain.                                                  *)
(***************************************************************************)
Hello == <<"h", "e", "l", "l", "o">>

\* max_arg_bytes: negative, no limit, limits below, at and above the sizes of
\* the arguments, and limits around the size reported when encoding fails.
ValidateLimits == {-1, 0, 1, 16, 17, HugeSize - 1, HugeSize}

ValidateConfigs ==
  {Absent} \cup
  { Some(ValidateConfig(r, m)) : r \in BOOLEAN, m \in ValidateLimits }

\* Encoded sizes 2, 13, 16, 17 and 21 bytes, and arguments json.dumps rejects.
ValidateArguments ==
  { <<>>,
    [k \in {"msg"} |-> PyStr(Hi)],
    [k \in {"msg"} |-> PyStr(Hello)],
    [k \in {"msg"} |-> PyStr(Hello \o <<"!">>)],
    [k \in {"msg", "n"} |-> IF k = "n" THEN PyInt(3) ELSE PyStr(Hi)],
    [k \in {"q"} |-> PyObj],
    [k \in {"items"} |-> PyList(<<PyInt(1), PyObj>>)] }

InitValidate ==
  /\ valCfg \in ValidateConfigs
  /\ valArgs \in ValidateArguments
  /\ valOut = Absent
  /\ EvalIdle
  /\ PipeIdle
  /\ LimIdle
  /\ RateIdle
  /\ DetIdle
  /\ RedIdle
  /\ CtxIdle

\* layers/validate.py: validate_layer._layer, called once; nxt counts the
\* calls of the rest of the chain.
ValidateLayerCall ==
  /\ valOut = Absent
  /\ valOut' =
       IF /\ IsSet(valCfg)
          /\ valCfg[1].max_arg_bytes # 0
          /\ arguments_size_bytes(valArgs) > valCfg[1].max_arg_bytes
       THEN Some([raised |-> TRUE, nxt |-> 0,
                  decision |-> Some(Decision(FALSE,
                     Reason("Arguments too large (><max_arg_bytes> bytes)", <<>>),
                     "p1", Some("Reduce arguments payload size."), "validate"))])
       ELSE Some([raised |-> FALSE, nxt |-> 1, decision |-> Absent])
  /\ UNCHANGED <<valCfg, valArgs, evalVars, pipeVars, limVars, rateVars, detVars,
                 redVars, ctxVars>>

NextValidate == ValidateLayerCall

SpecValidate == InitValidate /\ [][NextValidate]_vars

\* The size gate as specified: a validate config with max_arg_bytes > 0.
SizeGateActive == IsSet(valCfg) /\ valCfg[1].max_arg_bytes > 0

\* The canonical encoding of the arguments fails.
EncodingFails == ~Serializable(PyDict(valArgs))

\* C23: the size gate is active only when a validate config exists with
\* max_arg_bytes > 0; the layer then denies, with layer 'validate', exactly
\* when arguments_size_bytes exceeds max_arg_bytes, and otherwise calls the
\* rest of the chain; arguments whose encoding fails are rejected under every
\* positive max_arg_bytes.
C23_SizeGate ==
  IsSet(valOut) =>
    /\ valOut[1].raised <=>
         (SizeGateActive /\ arguments_size_bytes(valArgs) > valCfg[1].max_arg_bytes)
    /\ valOut[1].raised => valOut[1].decision[1].layer = "validate"
    /\ (SizeGateActive /\ EncodingFails) => valOut[1].raised

\* What holds of the layer: for a limit that is positive and below the size
\* reported when encoding fails, the gate is as specified.
C23_SizeGateBelowHuge ==
  (IsSet(valOut) /\ SizeGateActive /\ valCfg[1].max_arg_bytes < HugeSize) =>
    /\ valOut[1].raised <=>
         (EncodingFails \/ JsonLen(PyDict(valArgs)) > valCfg[1].max_arg_bytes)
    /\ valOut[1].raised => valOut[1].decision[1].layer = "validate"

\* Arguments of two bytes were denied under a negative max_arg_bytes.
C23_Witness ==
  /\ IsSet(valOut)
  /\ valOut[1].raised
  /\ valCfg[1].max_arg_bytes < 0
  /\ valArgs = <<>>

(***************************************************************************)
(* SpecSkew: the limiter called sequentially under a clock whose readings  *)
(* go backwards and jump forward.                                          *)
(***************************************************************************)
\* The readings of time.time(), in seconds: 600 is far beyond a full refill.
SkewTimes == {0, 5, 10, 600}

InitSkew ==
  /\ rateCfg \in RateConfigs
  /\ rateBuckets = <<>>
  /\ rateNow \in SkewTimes
  /\ rateHist = <<>>
  /\ EvalIdle
  /\ PipeIdle
  /\ LimIdle
  /\ DetIdle
  /\ RedIdle
  /\ ValIdle
  /\ CtxIdle

\* time.time() reads anything between two calls.
SkewClock ==
  /\ \E t \in SkewTimes \ {rateNow} : rateNow' = t
  /\ UNCHANGED <<rateCfg, rateBuckets, rateHist, evalVars, pipeVars, limVars, detVars,
                 redVars, valVars, ctxVars>>

\* limiter.allow(key, limit_per_minute, burst)
SkewAllow ==
  /\ Len(rateHist) < RateMaxCalls
  /\ \E key \in RateKeys :
       LET r == allow(rateBuckets, key, rateCfg.limit_per_minute, rateCfg.burst, rateNow)
       IN /\ rateBuckets' = r.buckets
          /\ rateHist' = Append(rateHist,
                            [key |-> key, t |-> rateNow, ok |-> r.ok,
                             tokens |-> r.buckets[key].tokens])
  /\ UNCHANGED <<rateCfg, rateNow, evalVars, pipeVars, limVars, detVars, redVars,
                 valVars, ctxVars>>

NextSkew == SkewClock \/ SkewAllow

SpecSkew == InitSkew /\ [][NextSkew]_vars

\* Calls i < j are consecutive calls on one key.
ConsecutiveOnKey(i, j) ==
  /\ i \in DOMAIN rateHist
  /\ j \in DOMAIN rateHist
  /\ i < j
  /\ rateHist[i].key = rateHist[j].key
  /\ \A h \in (i + 1)..(j - 1) : rateHist[h].key # rateHist[i].key

\* The balance of call j's bucket after its refill step, before the token is
\* taken.
AfterRefill(j) == rateHist[j].tokens + (IF rateHist[j].ok THEN Tenths(1) ELSE 0)

BalanceInBounds ==
  \A key \in DOMAIN rateBuckets :
    /\ 0 <= rateBuckets[key].tokens
    /\ rateBuckets[key].tokens <= Tenths(rateBuckets[key].capacity)

RefillNeverLowers ==
  \A i, j \in DOMAIN rateHist :
    ConsecutiveOnKey(i, j) => AfterRefill(j) >= rateHist[i].tokens

\* Three consecutive calls on a key: the clock steps back between the first
\* and the second and is back at the first call's reading at the third.  The
\* bucket was refilled up to that reading by the first call, so the third
\* credits nothing.
NoCreditForCreditedTime ==
  \A i, j, k \in DOMAIN rateHist :
    ( /\ ConsecutiveOnKey(i, j)
      /\ ConsecutiveOnKey(j, k)
      /\ rateHist[j].t < rateHist[i].t
      /\ rateHist[k].t = rateHist[i].t )
    => AfterRefill(k) = rateHist[j].tokens

\* C24: after any sequential series of allow calls, under clock readings that
\* go backwards or jump far forward, every bucket's balance is between 0 and
\* its capacity, a refill step never lowers the balance, and a clock that
\* steps backwards and then returns to its earlier reading credits no tokens
\* for the time up to that reading, which was credited already.
C24_BucketUnderSkew ==
  /\ BalanceInBounds
  /\ RefillNeverLowers
  /\ NoCreditForCreditedTime

\* What holds under every sequence of readings: the bounds of the balance and
\* the monotone refill.
C24_BoundsAndRefill == BalanceInBounds /\ RefillNeverLowers

\* The third of three calls on a key, made at the reading of the first after
\* the clock had stepped back, was admitted out of an empty bucket.
C24_Witness ==
  \E i, j, k \in DOMAIN rateHist :
    /\ ConsecutiveOnKey(i, j)
    /\ ConsecutiveOnKey(j, k)
    /\ rateHist[j].t < rateHist[i].t
    /\ rateHist[k].t = rateHist[i].t
    /\ rateHist[j].tokens = 0
    /\ rateHist[k].ok

(***************************************************************************)
(* Spec: what an execute does to the limiter's buckets.                    *)
(***************************************************************************)
\* The balance of the invocation's bucket once refilled at the clock reading
\* of this execute: a full bucket for a key that had none.
RefilledBalance ==
  LET key == _key(policy.rate_limit, ctx.tool_call) IN
  IF key \in DOMAIN start
  THEN Min(Tenths(start[key].capacity),
           start[key].tokens
             + Max(0, now - start[key].last_ts) * start[key].refill_per_sec)
  ELSE Tenths(Capacity(policy.rate_limit[1].limit_per_minute,
                       policy.rate_limit[1].burst))

\* This execute took one token from the invocation's bucket and touched no
\* other bucket.
OneTokenTaken ==
  LET key == _key(policy.rate_limit, ctx.tool_call) IN
  /\ DOMAIN _buckets = DOMAIN start \cup {key}
  /\ _buckets[key].tokens = RefilledBalance - Tenths(1)
  /\ \A k \in DOMAIN start \ {key} : _buckets[k] = start[k]

ToolRaised == outcome.kind \in {"ToolError", "ToolExit"}

\* C25: the token is taken before authorization.  An execute with rate
\* limiting in force that passes the limiter and is then denied by authorize
\* or by detect_attacks, or whose tool raises, has taken one token from its
\* bucket; an execute denied by the size gate of validate, or run with no
\* rate-limit config, a disabled one or limit_per_minute = 0, leaves the
\* bucket map as it was: no token taken, no bucket created.
C25_TokenTakenBeforeAuthorize ==
  pc = "done" =>
    /\ (RateLimitActive /\ FirstFailing \in {"authorize", "detect_attacks"})
         => OneTokenTaken
    /\ (RateLimitActive /\ FirstFailing = "none" /\ ToolRaised) => OneTokenTaken
    /\ (SizeCheckFails \/ ~RateLimitActive) => _buckets = start

\* An execute denied by authorize after the limiter had created a bucket for
\* it and taken a token.
C25_Witness ==
  /\ pc = "done"
  /\ RateLimitActive
  /\ FirstFailing = "authorize"
  /\ Denied
  /\ OneTokenTaken
  /\ _key(policy.rate_limit, ctx.tool_call) \notin DOMAIN start

\* The other cases: a denial by detect_attacks and a raising tool with the
\* token taken, a denial by the size gate with the limiter in force and the
\* buckets untouched.
C25_WitnessDetect ==
  pc = "done" /\ RateLimitActive /\ FirstFailing = "detect_attacks" /\ OneTokenTaken

C25_WitnessRaise ==
  pc = "done" /\ RateLimitActive /\ FirstFailing = "none" /\ ToolRaised /\ OneTokenTaken

C25_WitnessSizeGate ==
  pc = "done" /\ RateLimitActive /\ SizeCheckFails /\ Denied /\ _buckets = start

(***************************************************************************)
(* SpecFrame: one limiter called sequentially on several keys, each call   *)
(* with its own limit_per_minute and burst.                                *)
(***************************************************************************)
\* Calls of allow in one run.
FrameMaxCalls == 3

FrameKeys == {"actor:a", "actor:b", "tool:echo"}

FrameTimes == {0, 10}

InitFrame ==
  /\ rateCfg \in RateConfigs
  /\ rateBuckets = <<>>
  /\ rateNow \in FrameTimes
  /\ rateHist = <<>>
  /\ EvalIdle
  /\ PipeIdle
  /\ LimIdle
  /\ DetIdle
  /\ RedIdle
  /\ ValIdle
  /\ CtxIdle

\* time.time() reads anything between two calls.
FrameClock ==
  /\ \E t \in FrameTimes \ {rateNow} : rateNow' = t
  /\ UNCHANGED <<rateCfg, rateBuckets, rateHist, evalVars, pipeVars, limVars, detVars,
                 redVars, valVars, ctxVars>>

\* The next call comes with another limit_per_minute and burst.
FrameConfig ==
  /\ \E cfg \in RateConfigs \ {rateCfg} : rateCfg' = cfg
  /\ UNCHANGED <<rateBuckets, rateNow, rateHist, evalVars, pipeVars, limVars, detVars,
                 redVars, valVars, ctxVars>>

\* limiter.allow(key, limit_per_minute, burst)
FrameAllow ==
  /\ Len(rateHist) < FrameMaxCalls
  /\ \E key \in FrameKeys :
       LET r == allow(rateBuckets, key, rateCfg.limit_per_minute, rateCfg.burst, rateNow)
       IN /\ rateBuckets' = r.buckets
          /\ rateHist' = Append(rateHist,
                            [key |-> key, t |-> rateNow, ok |-> r.ok,
                             tokens |-> r.buckets[key].tokens])
  /\ UNCHANGED <<rateCfg, rateNow, evalVars, pipeVars, limVars, detVars, redVars,
                 valVars, ctxVars>>

NextFrame == FrameClock \/ FrameConfig \/ FrameAllow

SpecFrame == InitFrame /\ [][NextFrame]_vars

\* The step is a call of allow on key.
AllowStepOn(key) ==
  /\ Len(rateHist') = Len(rateHist) + 1
  /\ rateHist'[Len(rateHist')].key = key

\* C27: a call of allow on a key leaves every other key's bucket (capacity,
\* refill rate, tokens, last_ts) as it was, leaves the capacity and the
\* refill rate of the key's bucket as they were when it exists already, and
\* removes no key: the key set after the call is the key set before together
\* with the key.
C27_AllowFrame ==
  [][ \A key \in FrameKeys :
        AllowStepOn(key) =>
          /\ DOMAIN rateBuckets' = DOMAIN rateBuckets \cup {key}
          /\ \A k \in DOMAIN rateBuckets \ {key} : rateBuckets'[k] = rateBuckets[k]
          /\ key \in DOMAIN rateBuckets =>
               /\ rateBuckets'[key].capacity = rateBuckets[key].capacity
               /\ rateBuckets'[key].refill_per_sec = rateBuckets[key].refill_per_sec
    ]_vars

\* Two buckets exist, and the last call was made on the older one with a
\* limit_per_minute and burst that give another capacity or refill rate than
\* the bucket has.
C27_Witness ==
  /\ Len(rateHist) = 3
  /\ rateHist[1].key # rateHist[2].key
  /\ rateHist[3].key = rateHist[1].key
  /\ \/ rateBuckets[rateHist[3].key].capacity
          # Capacity(rateCfg.limit_per_minute, rateCfg.burst)
     \/ rateBuckets[rateHist[3].key].refill_per_sec
          # RefillPerSec(rateCfg.limit_per_minute)

(***************************************************************************)
(* SpecCtx: threads of a multi-threaded host call enforce on one Enforcer. *)
(* The objects Pipeline.execute creates live in ctxHeap and a thread holds *)
(* a reference into it; the Enforcer's limiter (ctxBuckets) and audit sink *)
(* (ctxEvents) are the objects every call reaches through the Enforcer.    *)
(* The policy configures rate_limit and audit only, so validate_layer,     *)
(* detect_attacks_layer and redact_layer return nxt() at once.  Each heap  *)
(* object records which call of enforce created it (owner) and which calls *)
(* read or wrote its fields (touched); an event records the call of        *)
(* enforce that wrote it, with its tool_call and what its tool function    *)
(* did.  These records are not program state.                              *)
(***************************************************************************)
\* Calls of enforce per thread.
CtxMaxCalls == 1

\* Readings of time.time() inside allow.
CtxTimes == {0, 10}

CtxPolicy ==
  PipePolicy("allow", Absent, Some(RateLimitConfig(TRUE, 60, 1, "actor")), Absent,
             Absent, PipeAudit)

CtxEnforcer == Enforcer(CtxPolicy, Sink)

\* echo matches an allow rule, hello matches no rule, rm matches a deny rule.
CtxCalls ==
  { ToolCall("echo", [k \in {"msg"} |-> PyStr(Hi)], Some("a"), {}, Absent),
    ToolCall("hello", <<>>, Some("a"), {}, Absent),
    ToolCall("rm", <<>>, Some("b"), {"support"}, Absent) }

\* What the tool function returns when it returns.
CtxResult == PyDict([k \in {"note"} |-> PyStr(Hi)])

\* The call of enforce thread th is in, or made last.
ExecId(th) == <<th, ctxThread[th].n>>

\* The context object thread th's variable ctx refers to.
CtxOf(th) == ctxHeap[ctxThread[th].ref].ctx

\* Thread th has left enforce, by return or by an exception.
Left(th) == [CtxIdleThread EXCEPT !.n = ctxThread[th].n]

\* Thread th read or wrote fields of the object its ctx refers to; obj is
\* the object after.
Touch(th, obj) ==
  [ctxHeap EXCEPT ![ctxThread[th].ref] =
     [@ EXCEPT !.ctx = obj, !.touched = @ \cup {ExecId(th)}]]

\* Mutant of CtxExecute: after the first call, execute reuses the first
\* CallContext, its fields set anew.
CtxExecuteSharedContext(th) ==
  /\ ctxThread[th].pc = "idle"
  /\ ctxThread[th].n < CtxMaxCalls
  /\ \E tc \in CtxCalls :
       /\ ctxHeap' =
            IF ctxHeap = <<>>
            THEN <<[ctx |-> CallContext(tc, CtxPolicy.policy_id),
                    owner |-> <<th, ctxThread[th].n + 1>>, touched |-> {}]>>
            ELSE [ctxHeap EXCEPT ![1].ctx = CallContext(tc, CtxPolicy.policy_id)]
       /\ ctxThread' =
            [ctxThread EXCEPT ![th] =
               [CtxIdleThread EXCEPT !.pc = "rate_limit", !.n = ctxThread[th].n + 1,
                                     !.tool_call = Some(tc), !.ref = 1]]
  /\ UNCHANGED <<ctxBuckets, ctxEvents, evalVars, pipeVars, limVars, rateVars,
                 detVars, redVars, valVars>>

\* wrapper.py lines 30-43 and pipeline.py lines 16-35: enforce builds the
\* layers and a Pipeline; execute creates a CallContext, binds it to the
\* local ctx and calls the chain.  validate_layer passes through.
CtxExecute(th) ==
  /\ ctxThread[th].pc = "idle"
  /\ ctxThread[th].n < CtxMaxCalls
  /\ \E tc \in CtxCalls :
       /\ ctxHeap' = Append(ctxHeap,
                            [ctx |-> CallContext(tc, CtxPolicy.policy_id),
                             owner |-> <<th, ctxThread[th].n + 1>>, touched |-> {}])
       /\ ctxThread' =
            [ctxThread EXCEPT ![th] =
               [CtxIdleThread EXCEPT !.pc = "rate_limit", !.n = ctxThread[th].n + 1,
                                     !.tool_call = Some(tc),
                                     !.ref = Len(ctxHeap) + 1]]
  /\ UNCHANGED <<ctxBuckets, ctxEvents, evalVars, pipeVars, limVars, rateVars,
                 detVars, redVars, valVars>>

\* layers/rate_limit.py line 33 and rate_limit.py lines 37-43: _key reads
\* ctx.tool_call, allow gets the bucket of the key and stores a full one
\* when there is none.
CtxLimiterGet(th) ==
  /\ ctxThread[th].pc = "rate_limit"
  /\ \E t \in CtxTimes :
       LET cfg == CtxPolicy.rate_limit
           key == _key(cfg, CtxOf(th).tool_call)
           cap == Capacity(cfg[1].limit_per_minute, cfg[1].burst)
           b == IF key \in DOMAIN ctxBuckets
                THEN ctxBuckets[key]
                ELSE TokenBucket(cap, RefillPerSec(cfg[1].limit_per_minute),
                                 Tenths(cap), t)
       IN /\ ctxBuckets' = [k \in DOMAIN ctxBuckets \cup {key} |->
                              IF k = key THEN b ELSE ctxBuckets[k]]
          /\ ctxThread' = [ctxThread EXCEPT ![th].pc = "take",
                                            ![th].b = Some([key |-> key, bucket |-> b])]
          /\ ctxHeap' = Touch(th, CtxOf(th))
  /\ UNCHANGED <<ctxEvents, evalVars, pipeVars, limVars, rateVars, detVars,
                 redVars, valVars>>

\* rate_limit.py lines 45-47 and layers/rate_limit.py lines 33-46: take(1)
\* on the bucket, then the layer stores the telemetry in ctx.meta and, when
\* the bucket refused, the decision and the layer tag before it raises.
\* Nothing serializes take: it computes from the fields as they are now or
\* as they were when this thread got the bucket (an update of another
\* thread in between is lost).
CtxLimiterTake(th) ==
  /\ ctxThread[th].pc = "take"
  /\ \E t \in CtxTimes :
     \E base \in {ctxThread[th].b[1].bucket, ctxBuckets[ctxThread[th].b[1].key]} :
       LET cfg == CtxPolicy.rate_limit
           key == ctxThread[th].b[1].key
           r == take(base, t)
           meta == [limit |-> cfg[1].limit_per_minute,
                    burst |-> IF cfg[1].burst # 0 THEN cfg[1].burst
                              ELSE Capacity(cfg[1].limit_per_minute, cfg[1].burst),
                    remaining |-> Max(0, r.remaining)]
           withMeta == [CtxOf(th) EXCEPT !.meta = [k \in {"rate_limit"} |-> meta]]
           decision == Decision(FALSE, Reason("Rate limit exceeded", <<>>),
                                CtxPolicy.policy_id, Some("Wait and retry later."),
                                "rate_limit")
       IN /\ ctxBuckets' = [ctxBuckets EXCEPT ![key] = r.bucket]
          /\ IF r.ok
             THEN /\ ctxHeap' = Touch(th, withMeta)
                  /\ ctxThread' = [ctxThread EXCEPT ![th].pc = "authorize",
                                                    ![th].rl = Some(meta)]
             ELSE /\ ctxHeap' = Touch(th, [withMeta EXCEPT !.decision = Some(decision),
                                                           !.layer = "rate_limit"])
                  /\ ctxThread' = [ctxThread EXCEPT ![th] = Left(th)]
  /\ UNCHANGED <<ctxEvents, evalVars, pipeVars, limVars, rateVars, detVars,
                 redVars, valVars>>

\* layers/authorize.py lines 11-16: the decision on ctx.tool_call is stored
\* in ctx; a denying decision is raised.  detect_attacks_layer and
\* redact_layer pass through and audit_layer calls nxt() inside try.
CtxAuthorize(th) ==
  /\ ctxThread[th].pc = "authorize"
  /\ LET decision == evaluate(CtxPolicy, CtxOf(th).tool_call) IN
       /\ ctxHeap' = Touch(th, [CtxOf(th) EXCEPT !.decision = Some(decision),
                                                 !.layer = decision.layer])
       /\ ctxThread' =
            IF decision.allowed
            THEN [ctxThread EXCEPT ![th].pc = "forward"]
            ELSE [ctxThread EXCEPT ![th] = Left(th)]
  /\ UNCHANGED <<ctxBuckets, ctxEvents, evalVars, pipeVars, limVars, rateVars,
                 detVars, redVars, valVars>>

\* pipeline.py lines 23-24: forward() calls tool_fn with the arguments of the
\* tool_call parameter; it returns a value or raises.
CtxForward(th) ==
  /\ ctxThread[th].pc = "forward"
  /\ \E out \in {Returned(CtxResult), ToolError} :
       ctxThread' = [ctxThread EXCEPT ![th].pc = "audit", ![th].flight = Some(out)]
  /\ UNCHANGED <<ctxHeap, ctxBuckets, ctxEvents, evalVars, pipeVars, limVars,
                 rateVars, detVars, redVars, valVars>>

\* layers/audit.py lines 14-50: the event is built from the fields of ctx
\* and written to the sink; then the value is returned or the exception
\* raised again.
CtxAudit(th) ==
  /\ ctxThread[th].pc = "audit"
  /\ LET obj == CtxOf(th)
         out == ctxThread[th].flight[1]
         layer == IF IsSet(obj.decision) THEN Some(obj.decision[1].layer)
                  ELSE IF obj.layer = NoLayer THEN Absent ELSE Some(obj.layer)
         reason(e) == IF IsSet(obj.decision) THEN obj.decision[1].reason
                      ELSE Reason(e, <<>>)
         event ==
           IF out.kind = "value"
           THEN AuditEvent(CtxEnforcer.audit_logger[1], obj.tool_call, "allow",
                           reason("Allowed"), obj.policy_id, layer, out.value,
                           CtxPolicy.audit[1].include_result,
                           CtxPolicy.audit[1].include_argument_values)
           ELSE AuditEvent(CtxEnforcer.audit_logger[1], obj.tool_call,
                           IF IsSet(obj.decision) /\ ~obj.decision[1].allowed
                           THEN "deny" ELSE "error",
                           reason("<str(e)>"), obj.policy_id, layer, None, FALSE,
                           CtxPolicy.audit[1].include_argument_values)
     IN /\ ctxEvents' = Append(ctxEvents,
                             [event |-> event, by |-> ExecId(th),
                              call |-> ctxThread[th].tool_call[1], out |-> out])
        /\ ctxHeap' = Touch(th, obj)
  /\ ctxThread' = [ctxThread EXCEPT ![th] = Left(th)]
  /\ UNCHANGED <<ctxBuckets, evalVars, pipeVars, limVars, rateVars, detVars,
                 redVars, valVars>>

InitCtx ==
  /\ CtxIdle
  /\ EvalIdle
  /\ PipeIdle
  /\ LimIdle
  /\ RateIdle
  /\ DetIdle
  /\ RedIdle
  /\ ValIdle

NextCtx ==
  \E th \in CtxThreads :
    \/ CtxExecute(th)
    \/ CtxLimiterGet(th)
    \/ CtxLimiterTake(th)
    \/ CtxAuthorize(th)
    \/ CtxForward(th)
    \/ CtxAudit(th)

SpecCtx == InitCtx /\ [][NextCtx]_vars

\* The calls of enforce made so far.
Executes == UNION {{<<th, k>> : k \in 1..ctxThread[th].n} : th \in CtxThreads}

\* Every call of enforce created one context of its own, and a thread inside
\* enforce refers to the context its call created.
OwnContext ==
  /\ \A x \in Executes : Cardinality({r \in DOMAIN ctxHeap : ctxHeap[r].owner = x}) = 1
  /\ \A r \in DOMAIN ctxHeap : ctxHeap[r].owner \in Executes
  /\ \A th \in CtxThreads :
       ctxThread[th].pc # "idle" => ctxHeap[ctxThread[th].ref].owner = ExecId(th)

\* No call of enforce read or wrote the fields of a context of another call.
TouchedByOwnerOnly ==
  \A r \in DOMAIN ctxHeap : ctxHeap[r].touched \subseteq {ctxHeap[r].owner}

\* The fields the context of a thread inside enforce holds are the ones
\* the layers of its own call stored: the telemetry its call of allow
\* returned, and from authorize_layer on the decision on its own tool_call.
OwnFields ==
  \A th \in CtxThreads :
    LET t == ctxThread[th] IN
      t.pc # "idle" =>
        /\ CtxOf(th).tool_call = t.tool_call[1]
        /\ CtxOf(th).meta = IF IsSet(t.rl) THEN [k \in {"rate_limit"} |-> t.rl[1]]
                            ELSE <<>>
        /\ IF t.pc \in {"forward", "audit"}
           THEN /\ CtxOf(th).decision = Some(evaluate(CtxPolicy, t.tool_call[1]))
                /\ CtxOf(th).layer = evaluate(CtxPolicy, t.tool_call[1]).layer
           ELSE /\ CtxOf(th).decision = Absent
                /\ CtxOf(th).layer = NoLayer

\* An audit event reports the tool_call of the call of enforce that wrote it
\* and the decision of authorize_layer on that tool_call.
OwnAuditEvent ==
  \A i \in DOMAIN ctxEvents :
    LET e == ctxEvents[i]
        decision == evaluate(CtxPolicy, e.call)
    IN e.event =
         AuditEvent(CtxEnforcer.audit_logger[1], e.call,
                    IF e.out.kind = "value" THEN "allow" ELSE "error",
                    decision.reason, CtxPolicy.policy_id, Some(decision.layer),
                    e.out.value, e.out.kind = "value", TRUE)

\* C26: each call of execute creates a CallContext of its own, and under
\* every interleaving of the threads calling enforce on one Enforcer the
\* decision, layer tag and meta the layers of one call stored are read by no
\* layer and no audit event of another call: a context is read and written
\* by the call that created it only, its fields are the ones that call
\* stored, and every audit event reports its own call.  What the calls have
\* in common besides the policy they read is the limiter's bucket map.
C26_ContextsNotShared ==
  /\ OwnContext
  /\ TouchedByOwnerOnly
  /\ OwnFields
  /\ OwnAuditEvent

\* Thread 2 entered execute first and is at the audit layer with its decision
\* stored, while thread 1 has run a whole call with another tool_call and
\* another decision on the same bucket and written its event.
C26_Witness ==
  /\ Len(ctxEvents) = 1
  /\ ctxEvents[1].by[1] = 1
  /\ ctxThread[2].pc = "audit"
  /\ ctxThread[2].ref = 1
  /\ ctxThread[2].tool_call[1].tool_name # ctxEvents[1].call.tool_name
  /\ ctxThread[2].b[1].key = _key(CtxPolicy.rate_limit, ctxEvents[1].call)
  /\ IsSet(CtxOf(2).decision)
  /\ CtxOf(2).decision[1].reason # ctxEvents[1].event.reason
  /\ ctxHeap[1].touched = {<<2, 1>>}
  /\ ctxHeap[2].touched = {<<1, 1>>}
====
